---- MODULE Spec2Model ----
(***************************************************************************)
(* Model of the yabai command router: the registration API (cmd, hears,    *)
(* group, use, on, onBeforeHandle/onAfterHandle/onError, as), the          *)
(* middleware engine, the pattern compiler and the dispatcher handle().    *)
(*                                                                         *)
(* A message body is a sequence of words and single whitespace characters  *)
(* (SP).  A compiled pattern is a sequence of regular-expression atoms and *)
(* exec() is a greedy backtracking matcher over them.  Registered          *)
(* callbacks are identified by the number they got at registration; what   *)
(* a callback returns or throws when the dispatcher invokes it is chosen   *)
(* by the environment.  Registration runs during setup, before the first   *)
(* message is dispatched.                                                  *)
(***************************************************************************)
EXTENDS Integers, Sequences, FiniteSets, TLC

\* ------------------------------------------------------------------ bounds
MaxFns == 3
MaxCommands == 2
MaxDepth == 2
MaxStalled == 1
MaxEngines == 3

\* ------------------------------------------------------------ basic values
Insts == {"bot", "plugin"}
Null == "null"
SP == " "

SCOPE_TYPES == {"local", "scoped", "global"}
HOOK_NAMES == {"request", "parse", "transform", "afterResponse", "pairing"}

\* a JavaScript value as the dispatcher sees it: a string (sequence of words
\* and SP), a number, undefined, null or an object
StrV(s) == [k |-> "string", v |-> s, n |-> 0]
NumV(i) == [k |-> "number", v |-> <<>>, n |-> i]
Undefined == [k |-> "undefined", v |-> <<>>, n |-> 0]
NullV == [k |-> "null", v |-> <<>>, n |-> 0]
ObjV == [k |-> "object", v |-> <<>>, n |-> 0]

Truthy(x) ==
    \/ x.k = "object"
    \/ x.k = "string" /\ x.v # <<>>
    \/ x.k = "number" /\ x.n # 0

\* ------------------------------------------------------------ utils/index
\* cloneRecordOfArrays copies every array of the record; values are immutable
\* here, so the clone is the record itself, detached from later pushes
cloneRecordOfArrays(record) == [name \in DOMAIN record |-> record[name]]

\* ------------------------------------------------------- MiddlewareEngine
EmptyEngine == [beforeHandle |-> <<>>, afterHandle |-> <<>>, error |-> <<>>]

add(engine, type, fn) == [engine EXCEPT ![type] = Append(@, fn)]

merge(this, engine) ==
    [beforeHandle |-> this.beforeHandle \o engine.beforeHandle,
     afterHandle |-> this.afterHandle \o engine.afterHandle,
     error |-> this.error \o engine.error]

mergeAll(global, own) == merge(merge(EmptyEngine, global), own)

\* --------------------------------------------------------- pattern compiler
\* regular-expression atoms
Lit(w) == [t |-> "lit", w |-> w, ws |-> FALSE, n |-> ""]
LitSp == [t |-> "lit", w |-> SP, ws |-> FALSE, n |-> ""]
Ws == [t |-> "ws", w |-> "", ws |-> FALSE, n |-> ""]
CapTok(name) == [t |-> "tok", w |-> "", ws |-> FALSE, n |-> name]
CapRest(name) == [t |-> "rest", w |-> "", ws |-> FALSE, n |-> name]
Opt(sep, cap) == [t |-> "opt", w |-> cap.t, ws |-> sep, n |-> cap.n]

\* pattern parts, the result of pattern.split(/\s+/).filter(Boolean)
Word(w) == [param |-> FALSE, w |-> w, q |-> FALSE]
Param(name) == [param |-> TRUE, w |-> name, q |-> FALSE]
ParamQ(name) == [param |-> TRUE, w |-> name, q |-> TRUE]

\* escapeRegExp of a prefix: its words joined by the literal separator
RECURSIVE escapeRegExp(_)
escapeRegExp(prefix) ==
    IF prefix = <<>> THEN <<>>
    ELSE IF Len(prefix) = 1 THEN <<Lit(prefix[1])>>
    ELSE <<Lit(prefix[1]), LitSp>> \o escapeRegExp(Tail(prefix))

\* ------------------------------------------------------------- arg schemas
NoArgs == <<>>

Field(name, type) ==
    [name |-> name, type |-> type, optional |-> FALSE, hasDefault |-> FALSE,
     defaultValue |-> Undefined, nullable |-> FALSE]

FieldOptional(f) == [f EXCEPT !.optional = TRUE]
FieldNullable(f) == [f EXCEPT !.nullable = TRUE]
FieldDefault(f, v) == [f EXCEPT !.hasDefault = TRUE, !.defaultValue = v]

isOptionalish_noNullable(fieldDef) == fieldDef.optional \/ fieldDef.hasDefault

\* optional === true || defaultValue !== undefined || nullable === true
isOptionalish(fieldDef) ==
    fieldDef.optional \/ fieldDef.hasDefault \/ fieldDef.nullable

ShapeNames(args) == {args[i].name : i \in 1..Len(args)}

ShapeField(args, name) ==
    args[CHOOSE i \in 1..Len(args) : args[i].name = name]

\* the ordering check of cmd(): no required field after an optional-ish one
SchemaOrderOk(args) ==
    \A i \in 1..Len(args) : \A j \in 1..Len(args) :
        (i < j /\ isOptionalish(args[i])) => isOptionalish(args[j])

CompilePart_lastIsToken(parts, i, args) ==
    (IF i = 1 THEN <<>> ELSE <<Ws>>)
    \o <<IF parts[i].param THEN CapTok(parts[i].w) ELSE Lit(parts[i].w)>>

\* the regex segment of pattern part i
CompilePart(parts, i, args) ==
    LET part == parts[i]
        sep == IF i = 1 THEN <<>> ELSE <<Ws>>
        isLast == i = Len(parts)
        inShape == part.w \in ShapeNames(args)
        isOptional ==
            \/ part.q
            \/ inShape /\ isOptionalish(ShapeField(args, part.w))
        capture == IF isLast THEN CapRest(part.w) ELSE CapTok(part.w)
    IN  IF part.param
        THEN IF isOptional THEN <<Opt(i # 1, capture)>>
             ELSE sep \o <<capture>>
        ELSE sep \o <<Lit(part.w)>>

RECURSIVE CompileParts(_, _, _)
CompileParts(parts, i, args) ==
    IF i > Len(parts) THEN <<>>
    ELSE CompilePart(parts, i, args) \o CompileParts(parts, i + 1, args)

\* finalPattern of cmd() for a string pattern under the active prefix
CompilePattern(prefix, parts, args) ==
    LET prefixSource == escapeRegExp(prefix)
        regexString == CompileParts(parts, 1, args)
        separator ==
            IF prefixSource # <<>> /\ regexString # <<>> THEN <<Ws>> ELSE <<>>
    IN  prefixSource \o separator \o regexString

\* names of the capture groups of a compiled pattern
GroupNames(atoms) ==
    {atoms[i].n : i \in {j \in 1..Len(atoms) : atoms[j].n # ""}}

NoMatch == [matched |-> FALSE, groups |-> <<>>]

SubSeqFrom(s, j) == SubSeq(s, j, Len(s))

\* RegExp.exec on an anchored pattern: the first match in backtracking order
\* (greedy quantifiers, an optional group is tried before it is skipped)
RECURSIVE Exec(_, _, _)
RECURSIVE TryLen(_, _, _, _, _)
TryLen(atoms, body, caps, n, isCap) ==
    IF n = 0 THEN NoMatch
    ELSE LET taken == SubSeq(body, 1, n)
             ok == IF isCap THEN TRUE
                   ELSE \A i \in 1..n : taken[i] = SP
             caps2 == IF isCap
                      THEN [caps EXCEPT ![atoms[1].n] = StrV(taken)]
                      ELSE caps
             r == IF ok THEN Exec(Tail(atoms), SubSeqFrom(body, n + 1), caps2)
                  ELSE NoMatch
         IN  IF r.matched THEN r
             ELSE TryLen(atoms, body, caps, n - 1, isCap)

Exec(atoms, body, caps) ==
    IF atoms = <<>>
    THEN IF body = <<>> THEN [matched |-> TRUE, groups |-> caps] ELSE NoMatch
    ELSE LET a == atoms[1] IN
         CASE a.t = "lit" ->
                IF body # <<>> /\ body[1] = a.w
                THEN Exec(Tail(atoms), Tail(body), caps)
                ELSE NoMatch
           [] a.t = "ws" -> TryLen(atoms, body, caps, Len(body), FALSE)
           [] a.t = "tok" ->
                IF body # <<>> /\ body[1] # SP
                THEN Exec(Tail(atoms), Tail(body),
                          [caps EXCEPT ![a.n] = StrV(<<body[1]>>)])
                ELSE NoMatch
           [] a.t = "rest" -> TryLen(atoms, body, caps, Len(body), TRUE)
           [] a.t = "opt" ->
                LET cap == IF a.w = "rest" THEN CapRest(a.n) ELSE CapTok(a.n)
                    inner == (IF a.ws THEN <<Ws>> ELSE <<>>) \o <<cap>>
                    r == Exec(inner \o Tail(atoms), body, caps)
                IN  IF r.matched THEN r
                    ELSE Exec(Tail(atoms), body, caps)

\* pattern.exec(body): match.groups maps every named group to its capture,
\* undefined for a group that did not take part in the match
exec(pattern, body) ==
    Exec(pattern, body, [name \in GroupNames(pattern) |-> Undefined])

\* --------------------------------------------------------------- validator
Issue(message, path) == [message |-> message, path |-> path]

DigitWords == {"0", "1", "2", "3"}

WordNum(w) == CASE w = "0" -> 0 [] w = "1" -> 1 [] w = "2" -> 2 [] OTHER -> 3

RECURSIVE Trim(_)
Trim(s) ==
    IF s = <<>> THEN s
    ELSE IF s[1] = SP THEN Trim(Tail(s))
    ELSE IF s[Len(s)] = SP THEN Trim(SubSeq(s, 1, Len(s) - 1))
    ELSE s

\* Number(value): [nan |-> TRUE] when the conversion gives NaN
ToNumber(value) ==
    CASE value.k = "number" -> [nan |-> FALSE, n |-> value.n]
      [] value.k = "null" -> [nan |-> FALSE, n |-> 0]
      [] value.k = "string" ->
            LET s == Trim(value.v) IN
            IF s = <<>> THEN [nan |-> FALSE, n |-> 0]
            ELSE IF Len(s) = 1 /\ s[1] \in DigitWords
                 THEN [nan |-> FALSE, n |-> WordNum(s[1])]
                 ELSE [nan |-> TRUE, n |-> 0]
      [] OTHER -> [nan |-> TRUE, n |-> 0]

\* parse of the primitive under the wrappers of a field
PrimitiveParse(type, value) ==
    IF type = "number"
    THEN LET num == ToNumber(value) IN
         IF num.nan
         THEN [ok |-> FALSE, value |-> Undefined,
               issues |-> <<Issue("Expected a number", <<>>)>>]
         ELSE [ok |-> TRUE, value |-> NumV(num.n), issues |-> <<>>]
    ELSE IF value.k # "string"
         THEN [ok |-> FALSE, value |-> Undefined,
               issues |-> <<Issue("Expected a string", <<>>)>>]
         ELSE [ok |-> TRUE, value |-> value, issues |-> <<>>]

FieldParse_noDefault(f, value) ==
    IF value.k = "null" /\ f.nullable
    THEN [ok |-> TRUE, value |-> NullV, issues |-> <<>>]
    ELSE PrimitiveParse(f.type, value)

\* schema.parse(value) of one field: YabaiDefault, YabaiNullable, then the
\* primitive (YabaiOptional's own undefined case is taken by the object)
FieldParse(f, value) ==
    IF value.k = "undefined" /\ f.hasDefault
    THEN [ok |-> TRUE, value |-> f.defaultValue, issues |-> <<>>]
    ELSE IF value.k = "null" /\ f.nullable
    THEN [ok |-> TRUE, value |-> NullV, issues |-> <<>>]
    ELSE PrimitiveParse(f.type, value)

Get(data, key) == IF key \in DOMAIN data THEN data[key] ELSE Undefined

ObjectField(f, data) ==
    LET value == Get(data, f.name) IN
    IF value.k = "undefined" /\ f.optional
    THEN [ok |-> TRUE,
          value |-> IF f.hasDefault THEN f.defaultValue ELSE Undefined,
          issues |-> <<>>]
    ELSE IF value.k = "null" /\ f.nullable
    THEN [ok |-> TRUE, value |-> NullV, issues |-> <<>>]
    ELSE FieldParse(f, value)

PrefixPath(key, issues) ==
    [i \in 1..Len(issues) |->
        Issue(issues[i].message, <<key>> \o issues[i].path)]

RECURSIVE FieldIssues(_, _, _)
FieldIssues(args, i, data) ==
    IF i > Len(args) THEN <<>>
    ELSE PrefixPath(args[i].name, ObjectField(args[i], data).issues)
         \o FieldIssues(args, i + 1, data)

RECURSIVE SetToSeq(_)
SetToSeq(S) ==
    IF S = {} THEN <<>>
    ELSE LET x == CHOOSE y \in S : TRUE IN <<x>> \o SetToSeq(S \ {x})

ObjectParse_failFast(args, data) ==
    LET ks == SetToSeq(DOMAIN data \ ShapeNames(args))
        all == [i \in 1..Len(ks) |-> Issue("Unknown property", <<ks[i]>>)]
               \o FieldIssues(args, 1, data)
    IN  [ok |-> all = <<>>,
         value |-> [name \in ShapeNames(args) |->
                      ObjectField(ShapeField(args, name), data).value],
         issues |-> IF all = <<>> THEN <<>> ELSE <<all[1]>>]

\* YabaiObject.parse (strict): every key is evaluated, all issues collected
ObjectParse(args, data) ==
    LET unknownKeys == DOMAIN data \ ShapeNames(args)
        unknownIssues ==
            LET ks == SetToSeq(unknownKeys) IN
            [i \in 1..Len(ks) |-> Issue("Unknown property", <<ks[i]>>)]
        issues == unknownIssues \o FieldIssues(args, 1, data)
        parsed == [name \in ShapeNames(args) |->
                      ObjectField(ShapeField(args, name), data).value]
    IN  [ok |-> issues = <<>>, value |-> parsed, issues |-> issues]

\* ------------------------------------------------------------------- state
VARIABLES
    scope,        \* config.scope of each instance
    prefixStack,  \* prefixStack of each instance, element 1 is index 0
    middleware,   \* the instance's own MiddlewareEngine
    hooks,        \* hook name -> handler list, per instance
    commands,     \* the command registry of each instance
    parent,       \* parent back-reference (null for a root)
    children,     \* set of children per instance
    sock,         \* TRUE when a socket is assigned to the instance
    nextFn,       \* number given to the next callback passed to the API
    frames,       \* group() calls whose callback is running, innermost last
    last,         \* the last call of the public API
    owner,        \* per callback number: the instance and API that took it
    used,         \* the <<host, plugin>> pairs of the use() calls that returned
    stalled,      \* the other handle() calls, each awaiting a callback
    d             \* the dispatch started by the last handle() call

vars == <<scope, prefixStack, middleware, hooks, commands, parent, children,
          sock, nextFn, frames, last, owner, used, stalled, d>>

EmptyHooks == [name \in HOOK_NAMES |-> <<>>]

NoBefore ==
    [currentPrefix |-> <<>>, middleware |-> EmptyEngine, hooks |-> EmptyHooks,
     commands |-> <<>>, nextFn |-> 0]

Returned(op, r) ==
    [op |-> op, inst |-> r, threw |-> FALSE, before |-> NoBefore,
     args |-> <<>>]
Threw(op, r) ==
    [op |-> op, inst |-> r, threw |-> TRUE, before |-> NoBefore, args |-> <<>>]

Idle ==
    [pc |-> "idle", inst |-> "bot", body |-> <<>>, raw |-> "", idx |-> 0,
     i |-> 0, cont |-> "", params |-> <<>>, result |-> Undefined,
     ret |-> Undefined, error |-> 0,
     thrown |-> 0, trace |-> <<>>, outcome |-> "pending",
     handled |-> Undefined]

InFlight == d.pc \notin {"idle", "done"}

\* registration runs during setup, before the first message is dispatched
Setup == d.pc = "idle"

\* DEFAULT_CONFIG and the field initialisers of the class
Init ==
    /\ scope = [r \in Insts |-> "local"]
    /\ prefixStack = [r \in Insts |-> << <<>> >>]
    /\ middleware = [r \in Insts |-> EmptyEngine]
    /\ hooks = [r \in Insts |-> EmptyHooks]
    /\ commands = [r \in Insts |-> <<>>]
    /\ parent = [r \in Insts |-> Null]
    /\ children = [r \in Insts |-> {}]
    /\ sock = [r \in Insts |-> FALSE]
    /\ nextFn = 1
    /\ frames = <<>>
    /\ last = Returned("new", "bot")
    /\ owner = <<>>
    /\ used = {}
    /\ stalled = <<>>
    /\ d = Idle

\* get currentPrefix: prefixStack[0] || ''
currentPrefix(r) == IF prefixStack[r] = <<>> THEN <<>> ELSE prefixStack[r][1]

createStateSnapshot(stack, engine, hookRecord) ==
    [prefix |-> stack,
     middleware |-> merge(EmptyEngine, engine),
     hooks |-> cloneRecordOfArrays(hookRecord)]

restoreState_keepEngine(r, snapshot) ==
    /\ prefixStack' = [prefixStack EXCEPT ![r] = snapshot.prefix]
    /\ hooks' = [hooks EXCEPT ![r] = cloneRecordOfArrays(snapshot.hooks)]
    /\ UNCHANGED middleware

restoreState_keepHooks(r, snapshot) ==
    /\ prefixStack' = [prefixStack EXCEPT ![r] = snapshot.prefix]
    /\ middleware' = [middleware EXCEPT ![r] = snapshot.middleware]
    /\ UNCHANGED hooks

\* restoreState: the command list is not part of the snapshot
restoreState(r, snapshot) ==
    /\ prefixStack' = [prefixStack EXCEPT ![r] = snapshot.prefix]
    /\ middleware' = [middleware EXCEPT ![r] = snapshot.middleware]
    /\ hooks' = [hooks EXCEPT ![r] = cloneRecordOfArrays(snapshot.hooks)]

\* getRootInstance
RECURSIVE getRootInstance(_)
getRootInstance(r) ==
    IF parent[r] = Null THEN r ELSE getRootInstance(parent[r])

\* the instances applyGlobally visits: the root and all its descendants
RECURSIVE Reach(_, _)
Reach(S, n) ==
    IF n = 0 THEN S
    ELSE Reach(S \cup UNION {children[x] : x \in S}, n - 1)

applyGlobally(r) == Reach({getRootInstance(r)}, Cardinality(Insts))

\* the instances whose hook list on() extends, by scope
HookTargets(r) ==
    CASE scope[r] = "local" -> {r}
      [] scope[r] = "scoped" ->
            IF parent[r] = Null THEN {r} ELSE {r, parent[r]}
      [] OTHER -> applyGlobally(r)

Owner(r, api) == [inst |-> r, api |-> api, inGroup |-> FALSE]

\* a group() or use() callback of r is running
InGroup(r) == \E i \in 1..Len(frames) : frames[i].inst = r

\* on() of a local router called from inside one of its group callbacks
HookOwner(r) ==
    [inst |-> r, api |-> "on", inGroup |-> InGroup(r) /\ scope[r] = "local"]

\* the owners of the callbacks one cmd()/hears() call takes
CallOwners(r, api, optType) ==
    IF optType = "none" THEN <<Owner(r, api)>>
    ELSE <<Owner(r, api), Owner(r, "option")>>

\* this.config = { ...this.config, scope }; if (!valid) throw
asScope_assignFirst(current, s) == s

\* config.scope after as(s): the validation comes before the assignment
asScope(current, s) == IF s \in SCOPE_TYPES THEN s ELSE current

\* as(scope)
As(r, s) ==
    /\ Setup
    /\ scope' = [scope EXCEPT ![r] = asScope(@, s)]
    /\ last' = IF s \in SCOPE_TYPES THEN Returned("as", r) ELSE Threw("as", r)
    /\ UNCHANGED <<prefixStack, middleware, hooks, commands, parent, children,
                   sock, nextFn, frames, owner, d, used, stalled>>

\* on(hookName, fn) and its wrappers onRequest, onParse, ...
On(r, hookName) ==
    /\ Setup
    /\ nextFn <= MaxFns
    /\ IF hookName \in HOOK_NAMES
       THEN /\ hooks' = [x \in Insts |->
                  IF x \in HookTargets(r)
                  THEN [hooks[x] EXCEPT ![hookName] = Append(@, nextFn)]
                  ELSE hooks[x]]
            /\ nextFn' = nextFn + 1
            /\ owner' = Append(owner, HookOwner(r))
            /\ last' = Returned("on", r)
       ELSE /\ UNCHANGED <<hooks, nextFn, owner>>
            /\ last' = Threw("on", r)
    /\ UNCHANGED <<scope, prefixStack, middleware, commands, parent, children,
                   sock, frames, d, used, stalled>>

\* onBeforeHandle / onAfterHandle / onError
OnMiddleware(r, type) ==
    /\ Setup
    /\ nextFn <= MaxFns
    /\ middleware' = [middleware EXCEPT ![r] = add(@, type, nextFn)]
    /\ nextFn' = nextFn + 1
    /\ owner' = Append(owner, Owner(r, type))
    /\ last' = Returned(type, r)
    /\ UNCHANGED <<scope, prefixStack, hooks, commands, parent, children, sock,
                   frames, d, used, stalled>>

\* ------------------------------------------------------------ registration
NoPredicate == [accepts |-> {}, throws |-> {}]

\* the option lists of one cmd()/hears() call as an IMiddlewares record
OptionLists(optType, fn) ==
    IF optType = "none" THEN EmptyEngine ELSE add(EmptyEngine, optType, fn)

\* the CommandDef pushed by cmd()
\* via and nest are bookkeeping, not fields of CommandDef: the API call that
\* pushed the command and the prefixes of the group()/use() calls enclosing it
PatternCommand(prefix, engine, parts, args, handler, own, via, nest) ==
    [via |-> via, nest |-> nest,
     originalPattern |-> parts,
     hasPattern |-> TRUE,
     pattern |-> CompilePattern(prefix, parts, args),
     predicate |-> NoPredicate,
     handler |-> handler,
     args |-> args,
     middleware |-> mergeAll(engine, own)]

\* the CommandDef pushed by hears()
PredicateCommand(engine, predicate, handler, own) ==
    [via |-> "hears", nest |-> <<>>,
     originalPattern |-> <<>>,
     hasPattern |-> FALSE,
     pattern |-> <<>>,
     predicate |-> predicate,
     handler |-> handler,
     args |-> NoArgs,
     middleware |-> mergeAll(engine, own)]

\* the prefixes of the group() calls on r whose callback is running
RECURSIVE NestOf(_, _)
NestOf(fs, r) ==
    IF fs = <<>> THEN <<>>
    ELSE (IF fs[1].inst = r THEN fs[1].prefix ELSE <<>>) \o NestOf(Tail(fs), r)

Nest(r) == NestOf(frames, r)

Needed(optType) == IF optType = "none" THEN 1 ELSE 2

push_front(list, command) == <<command>> \o list

\* this.commands.push(command)
push(list, command) == Append(list, command)

\* one push per command, in the order of the list
RECURSIVE pushAll(_, _)
pushAll(list, added) ==
    IF added = <<>> THEN list
    ELSE pushAll(push(list, added[1]), Tail(added))

\* the second argument of cmd() is a schema, a function or a string; a
\* function is written as the literal Undefined
ValidSignature(a) == a.k \in {"undefined", "string"}

\* cmd(pattern, [schema], handler | literal, [options])
Cmd(r, parts, args, literal, optType) ==
    /\ Setup
    /\ Len(commands[r]) < MaxCommands
    /\ nextFn + Needed(optType) <= MaxFns + 1
    /\ IF ValidSignature(literal) /\ SchemaOrderOk(args)
       THEN /\ commands' = [commands EXCEPT ![r] = push(@,
                   PatternCommand(currentPrefix(r), middleware[r], parts, args,
                                  [fn |-> nextFn, literal |-> literal],
                                  OptionLists(optType, nextFn + 1),
                                  "cmd", Nest(r)))]
            /\ nextFn' = nextFn + Needed(optType)
            /\ owner' = owner \o CallOwners(r, "cmd", optType)
            /\ last' = [Returned("cmd", r) EXCEPT !.args = args]
       ELSE /\ UNCHANGED <<commands, nextFn, owner>>
            /\ last' = [Threw("cmd", r) EXCEPT !.args = args]
    /\ UNCHANGED <<scope, prefixStack, middleware, hooks, parent, children,
                   sock, frames, d, used, stalled>>

\* hears(predicate, handler, options)
Hears(r, predicate, optType) ==
    /\ Setup
    /\ Len(commands[r]) < MaxCommands
    /\ nextFn + Needed(optType) <= MaxFns + 1
    /\ commands' = [commands EXCEPT ![r] = push(@,
           PredicateCommand(middleware[r], predicate,
                            [fn |-> nextFn, literal |-> Undefined],
                            OptionLists(optType, nextFn + 1)))]
    /\ nextFn' = nextFn + Needed(optType)
    /\ owner' = owner \o CallOwners(r, "hears", optType)
    /\ last' = Returned("hears", r)
    /\ UNCHANGED <<scope, prefixStack, middleware, hooks, parent, children,
                   sock, frames, d, used, stalled>>

\* [existingPrefix, prefix || ''].filter(Boolean).join(' ')
newPrefix(r, prefix) == currentPrefix(r) \o prefix

Before(r) ==
    [currentPrefix |-> currentPrefix(r), middleware |-> middleware[r],
     hooks |-> hooks[r], commands |-> commands[r], nextFn |-> nextFn]

\* group(prefix, fn) up to the call of fn; use(plugin) with a function or an
\* install() object is the same call with the plugin as fn
GroupEnter(r, prefix) ==
    /\ Setup
    /\ Len(prefixStack[r]) < MaxDepth + 1
    /\ LET stack == <<newPrefix(r, prefix)>> \o prefixStack[r] IN
       /\ prefixStack' = [prefixStack EXCEPT ![r] = stack]
       /\ frames' = Append(frames,
              [inst |-> r, prefix |-> prefix,
               snapshot |-> createStateSnapshot(stack, middleware[r], hooks[r]),
               before |-> Before(r)])
    /\ last' = Returned("enter", r)
    /\ UNCHANGED <<scope, middleware, hooks, commands, parent, children, sock,
                   nextFn, owner, d, used, stalled>>

\* group(prefix, fn) from the return of fn
GroupExit ==
    /\ Setup
    /\ frames # <<>>
    /\ LET f == frames[Len(frames)] IN
       /\ restoreState(f.inst, f.snapshot)
       /\ last' = [Returned("group", f.inst) EXCEPT !.before = f.before]
    /\ frames' = SubSeq(frames, 1, Len(frames) - 1)
    /\ UNCHANGED <<scope, commands, parent, children, sock, nextFn, owner, d,
                   used, stalled>>

Reregistered_anyScope(command, pluginScope) ==
    command.hasPattern /\ command.originalPattern # <<>>

\* if (command.originalPattern) { if (plugin.config.scope === 'local') ...
Reregistered(command, pluginScope) ==
    /\ command.hasPattern
    /\ command.originalPattern # <<>>
    /\ pluginScope = "local"

UseArgs_carried(command) == command.args

\* the options use() passes to cmd() have the three handler lists and no
\* args key, and command.handler is a function: args is undefined
UseArgs(command) == NoArgs

\* the commands the callback of use() registers on the instance
UseCommands_noOptions(engine, prefix, pluginCommands, pluginScope, nest) ==
    [i \in 1..Len(pluginCommands) |->
        PatternCommand(prefix, engine, pluginCommands[i].originalPattern,
                       NoArgs, pluginCommands[i].handler, EmptyEngine,
                       "use", nest)]

RECURSIVE UseCommands(_, _, _, _, _)
UseCommands(engine, prefix, pluginCommands, pluginScope, nest) ==
    IF pluginCommands = <<>> THEN <<>>
    ELSE LET command == pluginCommands[1]
             rest == UseCommands(engine, prefix, Tail(pluginCommands),
                                 pluginScope, nest)
         IN  IF Reregistered(command, pluginScope)
             THEN <<PatternCommand(prefix, engine, command.originalPattern,
                                   UseArgs(command), command.handler,
                                   merge(EmptyEngine, command.middleware),
                                   "use", nest)>>
                  \o rest
             ELSE rest

\* use(plugin, {prefix}) with a Yabai instance as plugin
Use(r, plugin, prefix) ==
    /\ Setup
    /\ plugin # r
    /\ Len(prefixStack[r]) < MaxDepth + 1
    /\ LET stack == <<newPrefix(r, prefix)>> \o prefixStack[r]
           snapshot == createStateSnapshot(stack, middleware[r], hooks[r])
           added == UseCommands(middleware[r], stack[1], commands[plugin],
                                scope[plugin], Nest(r) \o prefix)
       IN  /\ Len(commands[r]) + Len(added) <= MaxCommands
           /\ commands' = [commands EXCEPT ![r] = pushAll(@, added)]
           /\ restoreState(r, snapshot)
    /\ last' = [Returned("use", r) EXCEPT !.before = Before(r)]
    /\ used' = used \cup {<<r, plugin>>}
    /\ UNCHANGED <<scope, parent, children, sock, nextFn, frames, owner, d,
                   stalled>>

\* bot.sock = ... by the connection layer or the caller
AttachSock(r) ==
    /\ Setup
    /\ frames = <<>>
    /\ ~sock[r]
    /\ sock' = [sock EXCEPT ![r] = TRUE]
    /\ UNCHANGED <<scope, prefixStack, middleware, hooks, commands, parent,
                   children, nextFn, frames, last, owner, d, used, stalled>>


\* -------------------------------------------------------------- dispatcher
\* errors: the number of the callback that threw, or one of
ValidationError == -1
SendError == -2

Event(k, name, fn, cmd, out, arg) ==
    [k |-> k, name |-> name, fn |-> fn, cmd |-> cmd, out |-> out, arg |-> arg]

Log(rec, e) == [rec EXCEPT !.trace = Append(@, e)]

HookStages == {"request", "parse", "transform", "afterResponse"}

\* the string a callback returns is named after the callback
Text(fn) == StrV(<<ToString(fn)>>)

\* handle() returns normally
Resolve(rec) == [rec EXCEPT !.pc = "done", !.outcome = "resolved"]

\* an exception leaves handle(): the returned promise rejects with it
Reject(rec, err) ==
    [rec EXCEPT !.pc = "done", !.outcome = "rejected", !.thrown = err]

ToMatching(rec, idx) == [rec EXCEPT !.pc = "match", !.idx = idx]

Return_continueLoop(rec) == ToMatching(rec, rec.idx + 1)

\* "return // Stop after the first matching command"
Return(rec) == Resolve(rec)

Catch_rethrow(rec, err) == Reject(rec, err)

Catch_skipParseErrors(rec, err) ==
    IF err = ValidationError
    THEN [rec EXCEPT !.pc = "before", !.i = 1]
    ELSE [rec EXCEPT !.pc = "error", !.i = 1, !.error = err]

\* catch (err) { await cmd.middleware.executeError(ctx, err) }
Catch(rec, err) == [rec EXCEPT !.pc = "error", !.i = 1, !.error = err]

HookCatch_rethrow(rec, err) == Reject(rec, err)

\* catch (error) { this.logger.error(...) } inside executeHooks
HookCatch(rec, err) == [rec EXCEPT !.i = rec.i + 1]

\* cmd.predicate(message.raw) is called outside the try block
PredicateThrow(rec, err) == Reject(rec, err)

\* an error handler that throws inside the catch block of handle()
ErrorThrow(rec, err) == Reject(rec, err)

\* { text: "Internal server error", status: 500 }
InternalServerError ==
    [k |-> "object", v |-> <<"Internal server error">>, n |-> 500]

NoneHandled_undefined(rec) == rec

\* executeError when no error handler returned a truthy value
NoneHandled(rec) == [rec EXCEPT !.handled = InternalServerError]

\* if (res) return res
Handled(rec, res) == [rec EXCEPT !.handled = res]

\* the error handlers executeError runs: those bound to the command
ErrorList(cmd, r) == cmd.middleware.error

BeforeList_ofInstance(cmd, r) == middleware[r].beforeHandle

\* the handlers executeBefore runs
BeforeList(cmd, r) == cmd.middleware.beforeHandle

\* the handlers executeAfter runs
AfterList(cmd, r) == cmd.middleware.afterHandle

FillNullable_none(args, params) == params

\* ctx.params[key] = null for every nullable field without a capture
FillNullable(args, params) ==
    [key \in DOMAIN params \cup
             {n \in ShapeNames(args) : ShapeField(args, n).nullable} |->
        IF key \in ShapeNames(args) /\ ShapeField(args, key).nullable
           /\ Get(params, key).k = "undefined"
        THEN NullV
        ELSE params[key]]

ReplyValue_ctx(rec) == rec.result

\* the local "result" of handle(), which the auto-reply tests and sends
ReplyValue(rec) == rec.ret

AfterHookStage(rec) ==
    CASE rec.pc = "request" -> [rec EXCEPT !.pc = "parse", !.i = 1]
      [] rec.pc = "parse" -> [rec EXCEPT !.pc = "transform", !.i = 1]
      [] rec.pc = "transform" -> ToMatching(rec, 1)
      [] OTHER -> Return(rec)

PredicateMatch_onBody(cmd, rec) ==
    \E x \in cmd.predicate.accepts : <<x>> = rec.body

\* cmd.predicate(message.raw): the predicate sees the transport message
PredicateMatch(cmd, rec) == rec.raw \in cmd.predicate.accepts

\* one iteration of "for (const cmd of this.commands)" up to its first await
Evaluate(rec, cmd) ==
    IF cmd.hasPattern
    THEN LET match == exec(cmd.pattern, rec.body) IN
         IF ~match.matched
         THEN Log(ToMatching(rec, rec.idx + 1),
                  Event("match", "", cmd.handler.fn, rec.idx, "miss", 0))
         ELSE LET filled == FillNullable(cmd.args, match.groups)
                  hit == Log([rec EXCEPT !.params = filled],
                             Event("match", "", cmd.handler.fn, rec.idx,
                                   "hit", 0))
              IN  IF cmd.args = NoArgs
                  THEN [hit EXCEPT !.pc = "before", !.i = 1]
                  ELSE LET parsed == ObjectParse(cmd.args, filled) IN
                       IF parsed.ok
                       THEN [Log(hit, Event("args", "", 0, rec.idx, "ok", 0))
                               EXCEPT !.pc = "before", !.i = 1,
                                      !.params = parsed.value]
                       ELSE Catch(Log(hit, Event("args", "", 0, rec.idx,
                                                 "throw", ValidationError)),
                                  ValidationError)
    ELSE IF rec.raw \in cmd.predicate.throws
         THEN PredicateThrow(
                  Log(rec, Event("predicate", "", cmd.handler.fn, rec.idx,
                                 "throw", cmd.handler.fn)),
                  cmd.handler.fn)
         ELSE IF PredicateMatch(cmd, rec)
         THEN [Log(rec, Event("predicate", "", cmd.handler.fn, rec.idx,
                              "hit", 0))
                 EXCEPT !.pc = "before", !.i = 1]
         ELSE Log(ToMatching(rec, rec.idx + 1),
                  Event("predicate", "", cmd.handler.fn, rec.idx, "miss", 0))

\* the dispatcher's own code from one callback to the next: runs rec forward
\* until a callback has to be invoked or handle() has finished
RECURSIVE Run(_)
Run(rec) ==
    LET r == rec.inst
        cmd == commands[r][rec.idx]
    IN
    CASE rec.pc \in HookStages ->
            IF rec.i <= Len(hooks[r][rec.pc]) THEN rec
            ELSE Run(AfterHookStage(rec))
      [] rec.pc = "match" ->
            IF rec.idx > Len(commands[r]) THEN Resolve(rec)
            ELSE Run(Evaluate(rec, cmd))
      [] rec.pc = "before" ->
            IF rec.i <= Len(BeforeList(cmd, r)) THEN rec
            ELSE [rec EXCEPT !.pc = "handler"]
      [] rec.pc = "after" ->
            IF rec.i <= Len(AfterList(cmd, r)) THEN rec
            ELSE IF Truthy(ReplyValue(rec)) /\ ReplyValue(rec).k = "string"
                 THEN [rec EXCEPT !.pc = "reply", !.cont = "result"]
                 ELSE Run([rec EXCEPT !.pc = "afterResponse", !.i = 1])
      [] rec.pc = "error" ->
            IF rec.i <= Len(ErrorList(cmd, r)) THEN rec
            ELSE Return(NoneHandled(rec))
      [] OTHER -> rec

NoSock_dispatch(rec) == Run([rec EXCEPT !.pc = "request", !.i = 1])

\* if (!this.sock) { this.logger.error(...); return }
NoSock(rec) == Resolve(rec)

\* handle(message)
HandleStart(r, body, raw) ==
    /\ ~InFlight
    /\ frames = <<>>
    /\ LET fresh == [Idle EXCEPT !.inst = r, !.body = body, !.raw = raw] IN
       d' = IF ~sock[r] THEN NoSock(fresh)
            ELSE Run([fresh EXCEPT !.pc = "request", !.i = 1])
    /\ UNCHANGED <<scope, prefixStack, middleware, hooks, commands, parent,
                   children, sock, nextFn, frames, last, owner, used, stalled>>

Interleave_serialized(rec) == [rec EXCEPT !.pc = "waiting"]

\* a handle() call made while earlier calls are pending: it shares nothing
\* with them but the router, and starts like any other call
Interleave(rec) ==
    IF ~sock[rec.inst] THEN NoSock(rec)
    ELSE Run([rec EXCEPT !.pc = "request", !.i = 1])

\* handle(message) while the callback the previous call awaits stays pending
HandleInterleaved(r, body, raw) ==
    /\ InFlight
    /\ Len(stalled) < MaxStalled
    /\ stalled' = Append(stalled, d)
    /\ d' = Interleave([Idle EXCEPT !.inst = r, !.body = body, !.raw = raw])
    /\ UNCHANGED <<scope, prefixStack, middleware, hooks, commands, parent,
                   children, sock, nextFn, frames, last, owner, used>>

Resumed_sharedContext(rec, other) ==
    [rec EXCEPT !.params = other.params, !.result = other.result,
                !.raw = other.raw]

\* ctx and msg are locals of handle(): a call that continues after another
\* call ran finds them as it left them
Resumed(rec, other) == rec

\* the callback an earlier call awaits settles while d awaits its own: the
\* earlier call continues, d waits
Switch(i) ==
    /\ i \in 1..Len(stalled)
    /\ stalled[i].pc # "done"
    /\ d' = Resumed(stalled[i], d)
    /\ stalled' = [stalled EXCEPT ![i] = d]
    /\ UNCHANGED <<scope, prefixStack, middleware, hooks, commands, parent,
                   children, sock, nextFn, frames, last, owner, used>>

Frame == UNCHANGED <<scope, prefixStack, middleware, hooks, commands, parent,
                     children, sock, nextFn, frames, last, owner, used,
                     stalled>>

Matched == commands[d.inst][d.idx]

\* executeHooks: await fn(ctx)
HookCall(out) ==
    /\ d.pc \in HookStages
    /\ LET fn == hooks[d.inst][d.pc][d.i]
           rec == Log(d, Event("hook", d.pc, fn, 0, out, 0))
       IN  d' = CASE out = "throw" -> Run(HookCatch(rec, fn))
                  [] out = "truthy" -> Run(AfterHookStage(rec))
                  [] OTHER -> Run([rec EXCEPT !.i = d.i + 1])
    /\ Frame

ShortCircuit_runHandler(rec, beforeResult) ==
    [rec EXCEPT !.result = beforeResult, !.pc = "handler"]

\* if (beforeResult) { ctx.result = beforeResult; reply if a string; return }
ShortCircuit(rec, beforeResult) ==
    IF beforeResult.k = "string"
    THEN [rec EXCEPT !.result = beforeResult, !.pc = "reply",
                     !.cont = "before"]
    ELSE Resolve([rec EXCEPT !.result = beforeResult])

\* executeBefore: await fn(ctx, next), and the short-circuit of handle()
BeforeCall(out) ==
    /\ d.pc = "before"
    /\ LET fn == BeforeList(Matched, d.inst)[d.i]
           rec == Log(d, Event("before", "", fn, d.idx, out, 0))
       IN  d' = CASE out = "throw" -> Run(Catch(rec, fn))
                  [] out = "string" -> ShortCircuit(rec, Text(fn))
                  [] out = "object" -> ShortCircuit(rec, ObjV)
                  [] OTHER -> Run([rec EXCEPT !.i = d.i + 1])
    /\ Frame

HandlerReturn_replyFirst(rec, result) ==
    IF result.k = "string"
    THEN [rec EXCEPT !.ret = result, !.result = result, !.pc = "reply",
                     !.cont = "result"]
    ELSE [rec EXCEPT !.ret = result, !.result = result, !.pc = "after",
                     !.i = 1]

\* const result = await cmd.handler(ctx); ctx.result = result;
\* await cmd.middleware.executeAfter(ctx, result)
HandlerReturn(rec, result) ==
    [rec EXCEPT !.ret = result, !.result = result, !.pc = "after", !.i = 1]

\* await cmd.handler(ctx)
HandlerCall(out) ==
    /\ d.pc = "handler"
    /\ LET h == Matched.handler
           rec == Log(d, Event("handler", "", h.fn, d.idx,
                               IF h.literal.k = "string" THEN "reply" ELSE out,
                               0))
       IN  d' = IF h.literal.k = "string"
                THEN [rec EXCEPT !.pc = "reply", !.cont = "literal"]
                ELSE CASE out = "throw" -> Run(Catch(rec, h.fn))
                       [] out = "string" ->
                             Run(HandlerReturn(rec, Text(h.fn)))
                       [] out = "empty" ->
                             Run(HandlerReturn(rec, StrV(<<>>)))
                       [] OTHER -> Run(HandlerReturn(rec, Undefined))
    /\ (Matched.handler.literal.k = "string" => out = "falsy")
    /\ Frame

\* executeAfter: await fn(ctx, next); the handler may assign ctx.result
\* ("mutate"); the event records the ctx.result it was called with
AfterCall(out) ==
    /\ d.pc = "after"
    /\ LET fn == AfterList(Matched, d.inst)[d.i]
           rec == Log(d, [Event("after", "", fn, d.idx, out, 0)
                            EXCEPT !.arg = d.result])
           len == Len(AfterList(Matched, d.inst))
       IN  d' = CASE out = "throw" -> Run(Catch(rec, fn))
                  [] out = "truthy" -> Run([rec EXCEPT !.i = len + 1])
                  [] out = "mutate" ->
                        Run([rec EXCEPT !.i = d.i + 1, !.result = Text(fn)])
                  [] OTHER -> Run([rec EXCEPT !.i = d.i + 1])
    /\ Frame

LiteralReturn_text(rec) ==
    HandlerReturn(rec, commands[rec.inst][rec.idx].handler.literal)

\* handler = async ({ msg }) => { await msg.reply(a) }: it returns undefined
LiteralReturn(rec) == HandlerReturn(rec, Undefined)

\* await ctx.msg.reply(content): sock.sendMessage resolves or rejects
ReplyCall(out) ==
    /\ d.pc = "reply"
    /\ LET content == CASE d.cont = "literal" -> Matched.handler.literal
                        [] d.cont = "result" -> ReplyValue(d)
                        [] OTHER -> d.result
           rec == Log(d, [Event("reply", d.cont, 0, d.idx, out, 0)
                            EXCEPT !.arg = content])
       IN  d' = CASE out = "throw" -> Run(Catch(rec, SendError))
                  [] d.cont = "before" -> Resolve(rec)
                  [] d.cont = "literal" -> Run(LiteralReturn(rec))
                  [] OTHER -> Run([rec EXCEPT !.pc = "afterResponse", !.i = 1])
    /\ Frame

\* executeError: await fn({ error, ctx })
ErrorCall(out) ==
    /\ d.pc = "error"
    /\ LET fn == ErrorList(Matched, d.inst)[d.i]
           rec == Log(d, Event("error", "", fn, d.idx, out, d.error))
       IN  d' = CASE out = "throw" -> ErrorThrow(rec, fn)
                  [] out = "truthy" -> Return(Handled(rec, ObjV))
                  [] OTHER -> Run([rec EXCEPT !.i = d.i + 1])
    /\ Frame

\* ------------------------------------------------------------------ inputs
SumArgs == <<Field("a", "number")>>

Ping == [parts |-> <<Word("ping")>>, args |-> NoArgs, literal |-> Undefined]
PingPong ==
    [parts |-> <<Word("ping")>>, args |-> NoArgs,
     literal |-> StrV(<<"Pong!">>)]
Sum == [parts |-> <<Word("sum"), Param("a")>>, args |-> SumArgs,
        literal |-> Undefined]

\* cmd('', handler): the command of the bare prefix
Index == [parts |-> <<>>, args |-> NoArgs, literal |-> Undefined]

MiddlewareTypes == {"beforeHandle", "afterHandle", "error"}
AcceptsR1 == [accepts |-> {"r1"}, throws |-> {}]
ThrowsOnR2 == [accepts |-> {}, throws |-> {"r2"}]

Msg(body, raw) == [body |-> body, raw |-> raw]

Calls ==
    \/ \E out \in {"falsy", "truthy", "throw"} : HookCall(out)
    \/ \E out \in {"falsy", "string", "object", "throw"} : BeforeCall(out)
    \/ \E out \in {"falsy", "string", "throw"} : HandlerCall(out)
    \/ \E out \in {"falsy", "truthy", "throw"} : AfterCall(out)
    \/ \E out \in {"ok", "throw"} : ReplyCall(out)
    \/ \E out \in {"falsy", "truthy", "throw"} : ErrorCall(out)

\* ---- one router: registration of commands, middleware and hooks, dispatch
Messages ==
    {Msg(<<"ping">>, "r1"), Msg(<<"sum", SP, "1">>, "r1"),
     Msg(<<"sum", SP, "x">>, "r2"), Msg(<<"pong">>, "r2")}

Next ==
    \/ \E h \in {"request", "afterResponse"} : On("bot", h)
    \/ \E type \in MiddlewareTypes : OnMiddleware("bot", type)
    \/ \E c \in {Ping, PingPong, Sum} : \E o \in {"none", "error"} :
          Cmd("bot", c.parts, c.args, c.literal, o)
    \/ \E p \in {AcceptsR1, ThrowsOnR2} : Hears("bot", p, "none")
    \/ AttachSock("bot")
    \/ \E m \in Messages : HandleStart("bot", m.body, m.raw)
    \/ Calls

Spec == Init /\ [][Next]_vars

\* ---- a host and a plugin router: groups and use(), no dispatch
NextGroup ==
    \/ On("bot", "request")
    \/ OnMiddleware("bot", "beforeHandle")
    \/ \E r \in Insts : Cmd(r, Ping.parts, Ping.args, Ping.literal, "none")
    \/ GroupEnter("bot", <<"admin">>)
    \/ GroupExit
    \/ \E p \in {<<>>, <<"p">>} : Use("bot", "plugin", p)

SpecGroup == Init /\ [][NextGroup]_vars

\* ---- a host and a plugin router: prefixes and bound middleware, dispatch
TreeMessages ==
    {Msg(<<"ping">>, "r1"), Msg(<<"admin", SP, "ping">>, "r1"),
     Msg(<<"p", SP, "ping">>, "r1"),
     Msg(<<"admin", SP, "p", SP, "ping">>, "r1")}

NextTree ==
    \/ \E r \in Insts :
        \/ OnMiddleware(r, "beforeHandle")
        \/ Cmd(r, Ping.parts, Ping.args, Ping.literal, "none")
    \/ GroupEnter("bot", <<"admin">>)
    \/ GroupExit
    \/ \E p \in {<<>>, <<"p">>} : Use("bot", "plugin", p)
    \/ AttachSock("bot")
    \/ \E m \in TreeMessages : HandleStart("bot", m.body, m.raw)
    \/ \E out \in {"falsy", "string", "object", "throw"} : BeforeCall(out)
    \/ \E out \in {"falsy", "string", "throw"} : HandlerCall(out)
    \/ \E out \in {"ok", "throw"} : ReplyCall(out)

SpecTree == Init /\ [][NextTree]_vars

\* ---- a host and a plugin router without groups: bound middleware, dispatch
PluginMessages ==
    {Msg(<<"ping">>, "r1"), Msg(<<"p", SP, "ping">>, "r1")}

NextPlugin ==
    \/ \E r \in Insts :
        \/ OnMiddleware(r, "beforeHandle")
        \/ Cmd(r, Ping.parts, Ping.args, Ping.literal, "none")
    \/ \E p \in {<<>>, <<"p">>} : Use("bot", "plugin", p)
    \/ AttachSock("bot")
    \/ \E m \in PluginMessages : HandleStart("bot", m.body, m.raw)
    \/ \E out \in {"falsy", "string", "object", "throw"} : BeforeCall(out)
    \/ \E out \in {"falsy", "string", "throw"} : HandlerCall(out)
    \/ \E out \in {"ok", "throw"} : ReplyCall(out)

SpecPlugin == Init /\ [][NextPlugin]_vars

\* ---- one router: string patterns with parameters and args schemas, dispatch
DefaultName == StrV(<<"world!">>)

\* t.string() under no wrapper, .optional(), .default("world!"), .nullable()
Wrappers(name) ==
    {Field(name, "string"), FieldOptional(Field(name, "string")),
     FieldDefault(Field(name, "string"), DefaultName),
     FieldNullable(Field(name, "string"))}

Hi == [parts |-> <<Word("hi"), Param("name")>>,
       args |-> <<FieldDefault(Field("name", "string"), DefaultName)>>,
       literal |-> Undefined]
HiNullable ==
    [parts |-> <<Word("hi"), Param("name")>>,
     args |-> <<FieldNullable(FieldDefault(Field("name", "string"),
                                           DefaultName))>>,
     literal |-> Undefined]
Weather == [parts |-> <<Word("weather"), Param("name")>>,
            args |-> <<FieldNullable(Field("name", "string"))>>,
            literal |-> Undefined]
Echo == [parts |-> <<Word("echo"), Param("text")>>, args |-> NoArgs,
         literal |-> Undefined]
SumAB == [parts |-> <<Word("sum"), Param("a"), Param("b")>>, args |-> NoArgs,
          literal |-> Undefined]
Pairs ==
    {[parts |-> <<Word("pair"), Param("a"), Param("b")>>, args |-> <<fa, fb>>,
      literal |-> Undefined] : fa \in Wrappers("a"), fb \in Wrappers("b")}
Trios ==
    {[parts |-> <<Word("trio"), Param("a"), Param("b"), Param("c")>>,
      args |-> <<Field("a", "string"), FieldOptional(Field("b", "string")),
                 fc>>,
      literal |-> Undefined] : fc \in Wrappers("c")}

ArgCommands == {Hi, HiNullable, Weather, Echo, SumAB} \cup Pairs \cup Trios

ArgMessages ==
    {Msg(<<"hi">>, "r1"), Msg(<<"hi", SP, "bob">>, "r1"),
     Msg(<<"weather">>, "r1"), Msg(<<"weather", SP, "rain">>, "r1"),
     Msg(<<"echo", SP, "hello", SP, "world">>, "r1"),
     Msg(<<"echo", SP, SP, "hello", SP>>, "r1"),
     Msg(<<"sum", SP, "1", SP, "2", SP, "3">>, "r1"),
     Msg(<<"sum", SP, "1">>, "r1"),
     Msg(<<"pair", SP, "1", SP, "2">>, "r1"), Msg(<<"pair", SP, "1">>, "r1"),
     Msg(<<"pair">>, "r1"), Msg(<<"trio", SP, "1">>, "r1")}

NextArgs ==
    \/ \E c \in ArgCommands : Cmd("bot", c.parts, c.args, c.literal, "none")
    \/ AttachSock("bot")
    \/ \E m \in ArgMessages : HandleStart("bot", m.body, m.raw)
    \/ HandlerCall("falsy")

SpecArgs == Init /\ [][NextArgs]_vars

\* ---- one router: patterns with a trailing optional parameter, in groups
PingName == [parts |-> <<Word("ping"), ParamQ("name")>>, args |-> NoArgs,
             literal |-> Undefined]
OnlyName == [parts |-> <<ParamQ("name")>>, args |-> NoArgs,
             literal |-> Undefined]
OnlyNameSchema ==
    [parts |-> <<Param("name")>>,
     args |-> <<FieldOptional(Field("name", "string"))>>,
     literal |-> Undefined]

OptionalCommands ==
    {Hi, Weather, Echo, PingName, OnlyName, OnlyNameSchema} \cup Pairs

NextOptional ==
    \/ \E c \in OptionalCommands :
          Cmd("bot", c.parts, c.args, c.literal, "none")
    \/ GroupEnter("bot", <<"admin">>)
    \/ GroupExit

SpecOptional == Init /\ [][NextOptional]_vars

\* ---- one router: registration calls with valid and invalid arguments
\* cmd('x :a :b', h, { args: t.object({ a: optional, b: required }) })
BadOrder ==
    [parts |-> <<Word("x"), Param("a"), Param("b")>>,
     args |-> <<FieldOptional(Field("a", "number")), Field("b", "number")>>,
     literal |-> Undefined]
\* cmd('ping', 42)
BadSignature == [parts |-> <<Word("ping")>>, args |-> NoArgs,
                 literal |-> NumV(42)]

NextReject ==
    \/ \E s \in {"scoped", "everywhere"} : As("bot", s)
    \/ \E h \in {"request", "message"} : On("bot", h)
    \/ OnMiddleware("bot", "beforeHandle")
    \/ \E c \in {Ping, BadOrder, BadSignature} :
          Cmd("bot", c.parts, c.args, c.literal, "none")
    \/ GroupEnter("bot", <<"admin">>)
    \/ GroupExit

SpecReject == Init /\ [][NextReject]_vars

\* ---- a plugin with args schemas used by a host, dispatch on both
SumNumbers ==
    [parts |-> <<Word("sum"), Param("a"), Param("b")>>,
     args |-> <<Field("a", "number"), Field("b", "number")>>,
     literal |-> Undefined]

SchemaMessages ==
    {Msg(<<"hi">>, "r1"), Msg(<<"hi", SP, "bob">>, "r1"),
     Msg(<<"sum", SP, "1", SP, "2">>, "r1"),
     Msg(<<"sum", SP, "1", SP, "k">>, "r1")}

NextSchemas ==
    \/ \E c \in {Hi, SumNumbers} :
          Cmd("plugin", c.parts, c.args, c.literal, "none")
    \/ Use("bot", "plugin", <<>>)
    \/ \E r \in Insts : AttachSock(r)
    \/ \E r \in Insts : \E m \in SchemaMessages :
          HandleStart(r, m.body, m.raw)
    \/ HandlerCall("falsy")

SpecSchemas == Init /\ [][NextSchemas]_vars

\* ---- a host and a plugin router: scopes, use() and hook registration
NextHooks ==
    \/ \E r \in Insts : \E s \in SCOPE_TYPES : As(r, s)
    \/ Cmd("plugin", Ping.parts, Ping.args, Ping.literal, "none")
    \/ Use("bot", "plugin", <<>>)
    \/ \E r \in Insts : \E h \in {"request", "afterResponse"} : On(r, h)

SpecHooks == Init /\ [][NextHooks]_vars

\* ---- a host and a plugin router: every registration call, and dispatch
\* (the plugin is built before the host is set up and is used at top level)
RegistryMessages == {Msg(<<"admin", SP, "ping">>, "r1")}

NextRegistry ==
    \/ On("bot", "request")
    \/ OnMiddleware("bot", "beforeHandle")
    \/ Cmd("bot", Ping.parts, Ping.args, Ping.literal, "none")
    \/ nextFn = 1 /\ Cmd("plugin", Ping.parts, Ping.args, Ping.literal, "none")
    \/ Hears("bot", AcceptsR1, "none")
    \/ GroupEnter("bot", <<"admin">>)
    \/ GroupExit
    \/ frames = <<>> /\ Use("bot", "plugin", <<"p">>)
    \/ AttachSock("bot")
    \/ \E m \in RegistryMessages : HandleStart("bot", m.body, m.raw)
    \/ HookCall("falsy")
    \/ BeforeCall("falsy")
    \/ HandlerCall("string")
    \/ ReplyCall("ok")

SpecRegistry == Init /\ [][NextRegistry]_vars

\* ---- schema.parse of an object schema on its own
ParseKeys == {"a", "b", "x", "y"}
ParseValues == {StrV(<<"1">>), StrV(<<"k">>), NullV}

\* the input objects: some of the keys, each with a value
ParseData == UNION {[S -> ParseValues] : S \in SUBSET ParseKeys}

\* t.object({ a, b }) with every wrapper of t.string(), and with a number
ParseSchemas ==
    {c.args : c \in Pairs}
    \cup {<<Field("a", "number"), fb>> : fb \in Wrappers("b")}

InitParse ==
    /\ scope = [r \in Insts |-> "local"]
    /\ prefixStack = [r \in Insts |-> << <<>> >>]
    /\ middleware = [r \in Insts |-> EmptyEngine]
    /\ hooks = [r \in Insts |-> EmptyHooks]
    /\ commands = [r \in Insts |-> <<>>]
    /\ parent = [r \in Insts |-> Null]
    /\ children = [r \in Insts |-> {}]
    /\ sock = [r \in Insts |-> FALSE]
    /\ nextFn = 1
    /\ frames = <<>>
    /\ owner = <<>>
    /\ used = {}
    /\ stalled = <<>>
    /\ d = Idle
    /\ \E args \in ParseSchemas : \E data \in ParseData :
          last = [op |-> "input", args |-> args, data |-> data]

\* try { schema.parse(data) } catch (e) { e.issues }
Parse ==
    /\ last.op = "input"
    /\ last' = [op |-> "parse", args |-> last.args, data |-> last.data,
                result |-> ObjectParse(last.args, last.data)]
    /\ UNCHANGED <<scope, prefixStack, middleware, hooks, commands, parent,
                   children, sock, nextFn, frames, owner, used, stalled, d>>

NextParse == Parse

SpecParse == InitParse /\ [][NextParse]_vars

\* ---- MiddlewareEngine objects on their own: add, merge, mergeAll
\* A MiddlewareEngine holds three arrays by reference. The arrays live in
\* `arrays`, an engine is a record of three indices into it, and `inputs`
\* remembers which engines a merged engine was made from.
TYPES == {"beforeHandle", "afterHandle", "error"}

NoEngine == 0

\* the array a getter of the engine returns
ArrayOf(h, e, type) == h.arrays[h.engines[e][type]]

\* new MiddlewareEngine(): the field initialiser makes three empty arrays
newEngine(h, inputs) ==
    LET n == Len(h.arrays)
    IN [h EXCEPT !.arrays = @ \o << <<>>, <<>>, <<>> >>,
                 !.engines = Append(@, [beforeHandle |-> n + 1,
                                        afterHandle |-> n + 2,
                                        error |-> n + 3]),
                 !.inputs = Append(@, inputs)]

\* this.handlers[type].push(fn)
engineAdd(h, e, type, fn) ==
    [h EXCEPT !.arrays[h.engines[e][type]] = Append(@, fn)]

\* merged[type] = [...]: the setter stores a new array in the engine
setArray(h, e, type, array) ==
    [h EXCEPT !.arrays = Append(@, array),
              !.engines[e][type] = Len(h.arrays) + 1]

\* this[type].push(...engine[type]); return this
engineMerge_intoThis(h, this, engine) ==
    LET h1 == [h EXCEPT !.arrays[h.engines[this].beforeHandle] =
                            @ \o ArrayOf(h, engine, "beforeHandle")]
        h2 == [h1 EXCEPT !.arrays[h.engines[this].afterHandle] =
                            @ \o ArrayOf(h, engine, "afterHandle")]
        h3 == [h2 EXCEPT !.arrays[h.engines[this].error] =
                            @ \o ArrayOf(h, engine, "error")]
    IN [h3 EXCEPT !.engines = Append(@, h.engines[this]),
                  !.inputs = Append(@, {this, engine})]

engineMerge(h, this, engine) ==
    LET h0 == newEngine(h, {this, engine})
        merged == Len(h0.engines)
        h1 == setArray(h0, merged, "beforeHandle",
                  ArrayOf(h, this, "beforeHandle")
                  \o ArrayOf(h, engine, "beforeHandle"))
        h2 == setArray(h1, merged, "afterHandle",
                  ArrayOf(h, this, "afterHandle")
                  \o ArrayOf(h, engine, "afterHandle"))
    IN setArray(h2, merged, "error",
           ArrayOf(h, this, "error") \o ArrayOf(h, engine, "error"))

\* for (const eng of engines) if (eng) merged[type].push(...eng[type])
RECURSIVE pushEngines(_, _, _, _)
pushEngines(h, merged, engines, i) ==
    IF i > Len(engines) THEN h
    ELSE IF engines[i] = NoEngine THEN pushEngines(h, merged, engines, i + 1)
    ELSE LET eng == engines[i]
             h1 == [h EXCEPT !.arrays[h.engines[merged].beforeHandle] =
                                 @ \o ArrayOf(h, eng, "beforeHandle")]
             h2 == [h1 EXCEPT !.arrays[h.engines[merged].afterHandle] =
                                 @ \o ArrayOf(h, eng, "afterHandle")]
             h3 == [h2 EXCEPT !.arrays[h.engines[merged].error] =
                                 @ \o ArrayOf(h, eng, "error")]
         IN pushEngines(h3, merged, engines, i + 1)

engineMergeAll(h, engines) ==
    LET h0 == newEngine(h, {engines[i] : i \in 1..Len(engines)} \ {NoEngine})
    IN pushEngines(h0, Len(h0.engines), engines, 1)

\* no engine constructed yet
NoEngines ==
    [op |-> "start", arrays |-> <<>>, engines |-> <<>>, inputs |-> <<>>,
     fns |-> 0, on |-> NoEngine, args |-> <<>>]

FreshRouters ==
    /\ scope = [r \in Insts |-> "local"]
    /\ prefixStack = [r \in Insts |-> << <<>> >>]
    /\ middleware = [r \in Insts |-> EmptyEngine]
    /\ hooks = [r \in Insts |-> EmptyHooks]
    /\ commands = [r \in Insts |-> <<>>]
    /\ parent = [r \in Insts |-> Null]
    /\ children = [r \in Insts |-> {}]
    /\ sock = [r \in Insts |-> FALSE]
    /\ nextFn = 1
    /\ frames = <<>>
    /\ owner = <<>>
    /\ used = {}
    /\ stalled = <<>>
    /\ d = Idle

\* middleware = new MiddlewareEngine() of the two routers
InitEngines ==
    /\ FreshRouters
    /\ last = newEngine(newEngine(NoEngines, {}), {})

EngineStep(op, h, on, args) ==
    /\ last' = [h EXCEPT !.op = op, !.on = on, !.args = args]
    /\ UNCHANGED <<scope, prefixStack, middleware, hooks, commands, parent,
                   children, sock, nextFn, frames, owner, used, stalled, d>>

Engines == 1..Len(last.engines)

EngineAdd(e, type) ==
    /\ last.fns < MaxFns
    /\ EngineStep("add",
           engineAdd([last EXCEPT !.fns = @ + 1], e, type, last.fns + 1),
           e, <<>>)

EngineMerge(this, engine) ==
    /\ Len(last.engines) < MaxEngines
    /\ EngineStep("merge", engineMerge(last, this, engine),
                  Len(last.engines) + 1, <<this, engine>>)

EngineMergeAll(engines) ==
    /\ Len(last.engines) < MaxEngines
    /\ EngineStep("mergeAll", engineMergeAll(last, engines),
                  Len(last.engines) + 1, engines)

NextEngines ==
    \/ \E e \in Engines : \E type \in {"beforeHandle", "error"} :
          EngineAdd(e, type)
    \/ \E this \in Engines : \E engine \in Engines : EngineMerge(this, engine)
    \/ \E a \in Engines \cup {NoEngine} : \E b \in Engines :
          a < b /\ EngineMergeAll(<<a, b>>)

SpecEngines == InitEngines /\ [][NextEngines]_vars

\* ---- new Yabai(config)
\* a property of a config object: not supplied, supplied as undefined, or an
\* object with the keys `has`; number is the text of the key of that name
Absent == [k |-> "absent", has |-> {}, number |-> <<>>]
Undef == [k |-> "undefined", has |-> {}, number |-> <<>>]
Object(has, number) == [k |-> "object", has |-> has, number |-> number]
\* a string-valued property, k is the string
String(str) == [k |-> str, has |-> {}, number |-> <<>>]

CONFIG_KEYS == {"scope", "qrcode", "pairing", "enableHelp"}

DEFAULT_CONFIG ==
    [scope |-> String("local"), qrcode |-> Object({"small", "timeout"}, <<>>),
     pairing |-> Absent, enableHelp |-> Absent]

\* { ...a, ...b }: a property b supplies, even as undefined, replaces a's
Spread(a, b) ==
    [key \in CONFIG_KEYS |-> IF b[key] = Absent THEN a[key] ELSE b[key]]

isDigit(str) == str # <<>> /\ \A i \in 1..Len(str) : str[i] \in DigitWords

isEmpty(input) == input.k \in {"absent", "undefined"} \/ input.has = {}

\* validateConfig(config) does not throw
validateConfig(config) ==
    /\ ~(~isEmpty(config.qrcode) /\ ~isEmpty(config.pairing))
    /\ config.pairing.k = "object" =>
          /\ "number" \in config.pairing.has
          /\ isDigit(config.pairing.number)

Numbers == {<<>>, <<"1">>, <<"1", "2">>, <<"1", "k">>, <<"k">>}

Configs ==
    [scope : {String(sc) : sc \in SCOPE_TYPES} \cup {Absent},
     qrcode : {Absent, Undef, Object({}, <<>>), Object({"small"}, <<>>)},
     pairing : {Absent, Undef, Object({}, <<>>)}
               \cup {Object({"number"}, n) : n \in Numbers},
     enableHelp : {Absent, Object({}, <<>>)}]

InitConfig ==
    /\ FreshRouters
    /\ \E config \in Configs : last = [op |-> "input", config |-> config]

\* constructor(config): the "bot" router is the one under construction
Construct ==
    /\ last.op = "input"
    /\ LET extendConfig == Spread(DEFAULT_CONFIG, last.config) IN
       IF validateConfig(extendConfig)
       THEN /\ scope' = [scope EXCEPT !["bot"] = extendConfig.scope.k]
            /\ IF extendConfig.enableHelp.k = "object"
               THEN /\ commands' = [commands EXCEPT !["bot"] = push(@,
                           PatternCommand(currentPrefix("bot"),
                               middleware["bot"], <<Word("help")>>, NoArgs,
                               [fn |-> nextFn, literal |-> Undefined],
                               EmptyEngine, "cmd", <<>>))]
                    /\ nextFn' = nextFn + 1
                    /\ owner' = Append(owner, Owner("bot", "cmd"))
               ELSE UNCHANGED <<commands, nextFn, owner>>
            /\ last' = [op |-> "new", config |-> last.config, threw |-> FALSE]
       ELSE /\ UNCHANGED <<scope, commands, nextFn, owner>>
            /\ last' = [op |-> "new", config |-> last.config, threw |-> TRUE]
    /\ UNCHANGED <<prefixStack, middleware, hooks, parent, children, sock,
                   frames, used, stalled, d>>

NextConfig == Construct

SpecConfig == InitConfig /\ [][NextConfig]_vars

\* ---- a host and a plugin with commands, middleware and hooks: use()
NextUse ==
    \/ \E r \in Insts : OnMiddleware(r, "beforeHandle")
    \/ On("plugin", "request")
    \/ Cmd("bot", Ping.parts, Ping.args, Ping.literal, "none")
    \/ \E c \in {Ping, Index} :
          Cmd("plugin", c.parts, c.args, c.literal, "none")
    \/ Hears("plugin", AcceptsR1, "none")
    \/ \E s \in SCOPE_TYPES : As("plugin", s)
    \/ \E p \in {<<>>, <<"p">>} : Use("bot", "plugin", p)

SpecUse == Init /\ [][NextUse]_vars

\* ---- one router: after-middleware and the auto-reply, dispatch
NextAfter ==
    \/ OnMiddleware("bot", "afterHandle")
    \/ \E o \in {"none", "afterHandle"} :
          Cmd("bot", Ping.parts, Ping.args, Ping.literal, o)
    \/ AttachSock("bot")
    \/ HandleStart("bot", <<"ping">>, "r1")
    \/ \E out \in {"falsy", "string", "empty", "throw"} : HandlerCall(out)
    \/ \E out \in {"falsy", "truthy", "mutate", "throw"} : AfterCall(out)
    \/ \E out \in {"ok", "throw"} : ReplyCall(out)

SpecAfter == Init /\ [][NextAfter]_vars

\* ---- one router: a call whose callback never resolves, and later calls
StallMessages == {Msg(<<"ping">>, "r1"), Msg(<<"pong">>, "r2")}

StallCalls ==
    \/ \E out \in {"falsy", "string", "object", "throw"} : BeforeCall(out)
    \/ \E out \in {"falsy", "string", "throw"} : HandlerCall(out)
    \/ \E out \in {"ok", "throw"} : ReplyCall(out)

NextStall ==
    \/ OnMiddleware("bot", "beforeHandle")
    \/ Cmd("bot", Ping.parts, Ping.args, Ping.literal, "none")
    \/ AttachSock("bot")
    \/ \E m \in StallMessages : HandleStart("bot", m.body, m.raw)
    \/ \E m \in StallMessages : HandleInterleaved("bot", m.body, m.raw)
    \/ StallCalls

\* the event loop resumes a call once the callback it awaits has resolved; the
\* callbacks of the calls that are not stalled do resolve
SpecStall == Init /\ [][NextStall]_vars /\ WF_vars(StallCalls)

\* ---- one router: two calls of handle() interleaved at their awaits
EchoMessages ==
    {Msg(<<"echo", SP, "a">>, "r1"), Msg(<<"echo", SP, "b">>, "r2")}

NextInterleaved ==
    \/ \E type \in {"beforeHandle", "afterHandle"} : OnMiddleware("bot", type)
    \/ Cmd("bot", Echo.parts, Echo.args, Echo.literal, "none")
    \/ AttachSock("bot")
    \/ \E m \in EchoMessages : HandleStart("bot", m.body, m.raw)
    \/ \E m \in EchoMessages : HandleInterleaved("bot", m.body, m.raw)
    \/ \E i \in 1..MaxStalled : Switch(i)
    \/ BeforeCall("falsy")
    \/ \E out \in {"falsy", "string"} : HandlerCall(out)
    \/ AfterCall("falsy")
    \/ ReplyCall("ok")

SpecInterleaved == Init /\ [][NextInterleaved]_vars

\* -------------------------------------------------------------- properties
Done == d.pc = "done"
Started == d.pc # "idle"

Trace == d.trace
Pos == DOMAIN d.trace

\* the regular expression (or predicate) of a command accepts the message
Accepts(cmd, body, raw) ==
    IF cmd.hasPattern THEN exec(cmd.pattern, body).matched
    ELSE raw \in cmd.predicate.accepts

Matching(r, body, raw) ==
    {i \in 1..Len(commands[r]) : Accepts(commands[r][i], body, raw)}

Min(S) == CHOOSE x \in S : \A y \in S : x <= y

\* events of the pipeline of one command, and of the matching loop
PipelineKinds == {"args", "before", "handler", "after", "reply", "error"}
LoopKinds == {"match", "predicate"}

\* C1: one handle() call runs the handler of at most one command, the first
\* command in registration order that accepts the message; nothing of a later
\* command is evaluated or run, however the first match ended
C1_FirstMatchWins ==
    Started =>
        LET M == Matching(d.inst, d.body, d.raw) IN
        /\ Cardinality({p \in Pos : Trace[p].k = "handler"}) <= 1
        /\ \A p \in Pos :
              /\ Trace[p].k \in PipelineKinds =>
                    M # {} /\ Trace[p].cmd = Min(M)
              /\ (Trace[p].k \in LoopKinds /\ M # {}) =>
                    Trace[p].cmd <= Min(M)

\* a later command accepts the message too; the first one ran to its end
C1_Witness ==
    /\ Done
    /\ Cardinality(Matching(d.inst, d.body, d.raw)) >= 2
    /\ \E p \in Pos : Trace[p].k = "handler" /\ Trace[p].cmd = 1

Range(f) == {f[i] : i \in DOMAIN f}

ArgsThrow == {p \in Pos : Trace[p].k = "args" /\ Trace[p].out = "throw"}

\* the error handlers bound to the matched command
BoundErrors == commands[d.inst][d.idx].middleware.error

\* from position p on, err was given to executeError of the matched command:
\* its error handlers got err one after the other, in order, up to the first
\* truthy result, nothing else ran and handle() does not reject with err
Routed(p, err) ==
    /\ d.error = err
    /\ d.pc \in {"error", "done"}
    /\ \A q \in Pos : q > p =>
          /\ Trace[q].k = "error"
          /\ Trace[q].cmd = d.idx
          /\ Trace[q].arg = err
          /\ q - p <= Len(BoundErrors)
          /\ Trace[q].fn = BoundErrors[q - p]
    /\ Done =>
          /\ \/ Len(Trace) - p = Len(BoundErrors)
             \/ /\ Len(Trace) > p
                /\ Trace[Len(Trace)].out \in {"truthy", "throw"}
          /\ ~(d.outcome = "rejected" /\ d.thrown = err)

\* C2: a schema.parse failure of the first matching command goes to that
\* command's error middleware; its before-middleware, handler,
\* after-middleware and the afterResponse hooks never run, no further
\* command is tried and handle() does not re-raise the validation error
C2_ValidationErrorRouted ==
    \A p \in ArgsThrow :
        /\ Routed(p, ValidationError)
        /\ \A q \in Pos :
              /\ Trace[q].k \notin {"before", "handler", "after", "reply"}
              /\ ~(Trace[q].k = "hook" /\ Trace[q].name = "afterResponse")
              /\ Trace[q].k \in LoopKinds => q < p

C2_Witness ==
    /\ Done
    /\ ArgsThrow # {}
    /\ \E q \in Pos : Trace[q].k = "error" /\ Trace[q].arg = ValidationError

\* C3: whatever callback throws during a dispatch, the promise returned by
\* handle() resolves
C3_HandleNeverRejects == Done => d.outcome = "resolved"

\* the exception of the throw recorded at position p
Thrown(p) == IF Trace[p].k = "reply" THEN SendError ELSE Trace[p].fn

StageThrows ==
    {p \in Pos : /\ Trace[p].out = "throw"
                 /\ Trace[p].k \in {"before", "handler", "after", "reply"}}

AfterResponseThrows ==
    {p \in Pos : /\ Trace[p].out = "throw"
                 /\ Trace[p].k = "hook"
                 /\ Trace[p].name = "afterResponse"}

C9_OnErrorInvokedOnValidationFailure ==
    (Done /\ ArgsThrow # {}) =>
        /\ \A q \in Pos : Trace[q].k # "handler"
        /\ middleware[d.inst].error # <<>> =>
              \E q \in Pos : /\ Trace[q].k = "error"
                             /\ Trace[q].fn = middleware[d.inst].error[1]

RouterLevel(f) == owner[f].api \in {"beforeHandle", "afterHandle", "error"}

GroupReturned == last.op \in {"group", "use"}

C5_GroupRestoresMiddlewareAndHooks ==
    GroupReturned =>
        /\ middleware[last.inst] = last.before.middleware
        /\ hooks[last.inst] = last.before.hooks

\* a group() that returned after its callback added middleware or a hook
C5_Witness ==
    /\ last.op = "group"
    /\ \E f \in 1..Len(owner) :
          /\ f >= last.before.nextFn
          /\ owner[f].inst = last.inst
          /\ owner[f].api \in {"beforeHandle", "afterHandle", "error", "on"}

\* s joined by single spaces
RECURSIVE JoinSp(_)
JoinSp(s) ==
    IF Len(s) <= 1 THEN s ELSE <<s[1], SP>> \o JoinSp(Tail(s))

StartsWith(body, pre) ==
    Len(pre) <= Len(body) /\ SubSeq(body, 1, Len(pre)) = pre

Words(parts) == [i \in 1..Len(parts) |-> parts[i].w]

\* C6: prefixes compose outer to inner: a command registered inside nested
\* group()/use() calls is matched by the body made of their prefixes, in
\* nesting order, followed by the pattern, and only by bodies that start with
\* all those prefixes
C6_NestedPrefixesCompose ==
    \A r \in Insts : \A i \in 1..Len(commands[r]) :
        LET c == commands[r][i] IN
        c.hasPattern =>
            /\ c.nest # <<>> =>
                  exec(c.pattern,
                       JoinSp(c.nest \o Words(c.originalPattern))).matched
            /\ \A m \in TreeMessages :
                  exec(c.pattern, m.body).matched =>
                      StartsWith(m.body, JoinSp(c.nest))

\* the plugin command a re-registered command came from
Source(c) ==
    CHOOSE pc \in Range(commands["plugin"]) : pc.handler.fn = c.handler.fn

BeforeEvents == {p \in Pos : Trace[p].k = "before"}

BeforeStopped ==
    \E p \in BeforeEvents : Trace[p].out \in {"string", "object", "throw"}

HitCommand == \E p \in Pos : Trace[p].k = "match" /\ Trace[p].out = "hit"

\* C7: a dispatch on the host to a command declared directly on the host
\* never invokes a before-handle of the plugin; a dispatch to a re-registered
\* plugin command runs the before-handles bound to the plugin command, and a
\* truthy return of one of them skips the handler
C7_PluginMiddlewareIsolated ==
    /\ \A p \in BeforeEvents :
          commands[d.inst][Trace[p].cmd].via = "cmd" =>
              owner[Trace[p].fn].inst = d.inst
    /\ (HitCommand /\ commands[d.inst][d.idx].via = "use") =>
          LET bound == Source(commands[d.inst][d.idx]).middleware.beforeHandle
          IN  /\ (d.pc # "before" /\ ~BeforeStopped) =>
                    \A j \in 1..Len(bound) :
                        \E p \in BeforeEvents : Trace[p].fn = bound[j]
              /\ \A p \in BeforeEvents :
                    (Trace[p].fn \in Range(bound)
                        /\ Trace[p].out \in {"string", "object"}) =>
                        \A q \in Pos : Trace[q].k # "handler"

\* the host has a command of its own and a re-registered plugin command; the
\* dispatch to the latter invoked the plugin's before-handle, then the handler
C7_Witness ==
    /\ Done
    /\ \E i \in 1..Len(commands[d.inst]) : commands[d.inst][i].via = "cmd"
    /\ \E p \in BeforeEvents :
          /\ owner[Trace[p].fn].inst = "plugin"
          /\ commands[d.inst][Trace[p].cmd].via = "use"
    /\ \E q \in Pos : Trace[q].k = "handler"

\* ---- before-middleware short-circuit
Befores == {p \in Pos : Trace[p].k = "before"}

\* the before-handlers that returned a truthy value
TruthyBefores == {p \in Befores : Trace[p].out \in {"string", "object"}}

Replies == {p \in Pos : Trace[p].k = "reply"}

\* the value the before-handler called at position p returned
BeforeValue(p) == IF Trace[p].out = "string" THEN Text(Trace[p].fn) ELSE ObjV

\* the k-th before event of the dispatch called the k-th bound before-handler
BeforesInOrder ==
    \A p \in Befores :
        LET k == Cardinality({q \in Befores : q <= p}) IN
        /\ k <= Len(Matched.middleware.beforeHandle)
        /\ Trace[p].fn = Matched.middleware.beforeHandle[k]
        /\ \A q \in Befores : q < p => Trace[q].out = "falsy"

\* C11: the before-handlers of the matched command run in order; the first
\* truthy result stops the remaining before-handlers and becomes ctx.result,
\* the handler, the after-middleware and the afterResponse hooks do not run,
\* and one reply with that value is sent exactly when the value is a string
C11_BeforeShortCircuit ==
    /\ BeforesInOrder
    /\ \A p \in TruthyBefores :
          /\ d.result = BeforeValue(p)
          /\ \A q \in Pos : q > p =>
                /\ Trace[q].k \notin {"before", "handler", "after", "hook"}
                /\ Trace[q].k = "reply" => q = p + 1
          /\ Trace[p].out = "object" => Replies = {} /\ Done
          /\ Trace[p].out = "string" =>
                /\ d.pc = "reply" => Replies = {}
                /\ d.pc # "reply" =>
                      /\ Replies = {p + 1}
                      /\ Trace[p + 1].arg = BeforeValue(p)

\* the second of two before-handlers short-circuited with a string, the
\* reply was sent and handle() returned
C11_Witness ==
    /\ Done
    /\ \E p \in TruthyBefores :
          /\ Trace[p].out = "string"
          /\ Len(Matched.middleware.beforeHandle) = 2
          /\ Trace[p].fn = Matched.middleware.beforeHandle[2]
          /\ Replies # {}

\* ---- order of the stages
\* the stage an event of the trace belongs to; the reply of a string-literal
\* handler is sent by the handler itself
Rank(e) ==
    CASE e.k = "hook" /\ e.name = "request" -> 1
      [] e.k = "hook" /\ e.name = "parse" -> 2
      [] e.k = "hook" /\ e.name = "transform" -> 3
      [] e.k \in LoopKinds -> 4
      [] e.k = "args" -> 5
      [] e.k = "before" -> 6
      [] e.k = "handler" -> 7
      [] e.k = "reply" /\ e.name = "literal" -> 7
      [] e.k = "after" -> 8
      [] e.k = "reply" -> 9
      [] e.k = "hook" /\ e.name = "afterResponse" -> 10
      [] OTHER -> 11

\* nothing threw and no before-handler short-circuited
Clean ==
    /\ TruthyBefores = {}
    /\ \A p \in Pos : Trace[p].out # "throw"

Handlers == {p \in Pos : Trace[p].k = "handler"}
Afters == {p \in Pos : Trace[p].k = "after"}

\* every handler of the list ran, or the one that ran last returned truthy
RanAll(events, list) ==
    \/ Cardinality(events) = Len(list)
    \/ \E p \in events :
          /\ Trace[p].out = "truthy"
          /\ \A q \in events : q <= p

\* C12: in a dispatch without short-circuit and without error the stages
\* follow one another in the order request, parse, transform hooks, matching,
\* validation, before-middleware, handler, after-middleware, reply of a
\* string result, afterResponse hooks; a dispatch that matched a command and
\* returned went through every stage, each callback called after the previous
\* one returned
C12_StagesInOrder ==
    Clean =>
        /\ \A p, q \in Pos : p < q => Rank(Trace[p]) <= Rank(Trace[q])
        /\ \A p \in Pos : Rank(Trace[p]) <= 10
        /\ (Done /\ \E p \in Pos : Trace[p].out = "hit") =>
              /\ Cardinality(Handlers) = 1
              /\ Cardinality(Befores) = Len(Matched.middleware.beforeHandle)
              /\ RanAll(Afters, Matched.middleware.afterHandle)
              /\ RanAll({p \in Pos : Rank(Trace[p]) = 10},
                        hooks[d.inst]["afterResponse"])
              /\ (d.result.k = "string") =
                    (\E p \in Replies : Trace[p].name = "result")

\* a request hook, a before-handler, a handler returning a string, its reply
\* and nothing else: all of them ran, in that order
C12_Witness ==
    /\ Done
    /\ Clean
    /\ \E p \in Pos : Rank(Trace[p]) = 1
    /\ Befores # {}
    /\ \E p \in Replies : Trace[p].name = "result"

\* ---- no command matches
\* C13: when no registered command matches the message, handle() sends no
\* reply, calls no handler, no before-, after- or error-middleware and no
\* afterResponse hook, and resolves
C13_UnmatchedIsSilent ==
    (Started /\ Matching(d.inst, d.body, d.raw) = {}) =>
        /\ \A p \in Pos :
              /\ Trace[p].k \notin PipelineKinds
              /\ ~(Trace[p].k = "hook" /\ Trace[p].name = "afterResponse")
        /\ Done => d.outcome = "resolved"

\* ---- cmd(pattern, "text")
IsLiteral(cmd) == cmd.handler.literal.k = "string"

\* C14: a command registered with a literal string replies with exactly that
\* string, once, to a message matching its pattern: when it is the command the
\* dispatch selects and its handler is reached, the dispatch makes exactly one
\* reply call, with the literal as content; a dispatch whose message matches
\* the pattern of no such command makes no reply with a literal
C14_LiteralRepliesOnce ==
    /\ \A p \in Replies : Trace[p].name = "literal" =>
          /\ IsLiteral(commands[d.inst][Trace[p].cmd])
          /\ Accepts(commands[d.inst][Trace[p].cmd], d.body, d.raw)
          /\ Trace[p].arg = commands[d.inst][Trace[p].cmd].handler.literal
    /\ (Done /\ Handlers # {} /\ IsLiteral(Matched)) =>
          /\ Cardinality(Replies) = 1
          /\ \A p \in Replies : Trace[p].arg = Matched.handler.literal
    /\ (Done /\ sock[d.inst] /\ Matching(d.inst, d.body, d.raw) # {}) =>
          LET first == commands[d.inst][Min(Matching(d.inst, d.body, d.raw))]
          IN  (IsLiteral(first) /\ first.middleware.beforeHandle = <<>>) =>
                  Cardinality(Replies) = 1

\* cmd("ping", "Pong!") answered "ping" and handle() returned
C14_Witness ==
    /\ Done
    /\ d.outcome = "resolved"
    /\ Handlers # {}
    /\ IsLiteral(Matched)
    /\ \E p \in Replies :
          Trace[p].out = "ok" /\ Trace[p].arg = StrV(<<"Pong!">>)

\* ---- order of the fields of an args schema
\* neither optional, defaulted nor nullable
Required(f) == ~f.optional /\ ~f.hasDefault /\ ~f.nullable

RequiredAfterOptional(args) ==
    \E i, j \in 1..Len(args) : i < j /\ ~Required(args[i]) /\ Required(args[j])

\* C15: cmd() with an object schema throws exactly when a required field
\* comes after an optional, defaulted or nullable one in the field order;
\* otherwise the command is registered with the schema
C15_SchemaOrderChecked ==
    last.op = "cmd" =>
        /\ last.threw = RequiredAfterOptional(last.args)
        /\ ~last.threw =>
              /\ commands[last.inst] # <<>>
              /\ commands[last.inst][Len(commands[last.inst])].args = last.args

\* cmd() threw for a schema with a required field after a nullable one
C15_Witness ==
    /\ last.op = "cmd"
    /\ last.threw
    /\ Len(last.args) = 2
    /\ last.args[1].nullable
    /\ Required(last.args[2])

\* cmd() registered a schema whose optional-ish fields are a trailing suffix
C15_WitnessSuffix ==
    /\ last.op = "cmd"
    /\ ~last.threw
    /\ Len(last.args) = 3
    /\ Required(last.args[1])
    /\ ~Required(last.args[2])
    /\ ~Required(last.args[3])

\* ---- parameters the body does not supply
\* the whitespace-free tokens of a body, in order
Tokens(body) == SelectSeq(body, LAMBDA x : x # SP)

\* where the n-th token of the body starts, and the text from there on
TokenAt(body, n) ==
    CHOOSE k \in 1..Len(body) :
        body[k] # SP /\ Cardinality({j \in 1..k : body[j] # SP}) = n

Rest(body, n) == SubSeqFrom(body, TokenAt(body, n))

\* the dispatch selected a command with a string pattern
Hit == \E p \in Pos : Trace[p].k = "match" /\ Trace[p].out = "hit"

PartIndex(parts, name) ==
    CHOOSE i \in 1..Len(parts) : parts[i].param /\ parts[i].w = name

ParamNames(parts) == {parts[i].w : i \in {j \in 1..Len(parts) : parts[j].param}}

\* the last part of the pattern is a parameter the schema gives a default
DefaultedTrail(c) ==
    LET parts == c.originalPattern IN
    /\ c.hasPattern
    /\ parts # <<>>
    /\ parts[Len(parts)].param
    /\ parts[Len(parts)].w \in ShapeNames(c.args)
    /\ ShapeField(c.args, parts[Len(parts)].w).hasDefault

LiteralsOnly(parts) ==
    JoinSp([i \in 1..(Len(parts) - 1) |-> parts[i].w])

\* the body of literal segments alone is accepted by every command whose
\* other parts are literals
DefaultedTrailMatches ==
    \A i \in 1..Len(commands[d.inst]) :
        LET c == commands[d.inst][i] IN
        (/\ DefaultedTrail(c)
         /\ \A k \in 1..(Len(c.originalPattern) - 1) :
               ~c.originalPattern[k].param
         /\ d.body = LiteralsOnly(c.originalPattern)) =>
            Accepts(c, d.body, d.raw)

\* C16 as claimed: a trailing parameter with a schema default may be left out
\* of the body; the handler then gets the default for it, and the supplied
\* text when the body has it
C16_TrailingDefaultApplied ==
    Started =>
        /\ DefaultedTrailMatches
        /\ (Hit /\ DefaultedTrail(Matched)) =>
              LET parts == Matched.originalPattern
                  name == parts[Len(parts)].w
                  f == ShapeField(Matched.args, name)
              IN  /\ Done => Handlers # {}
                  /\ Len(Tokens(d.body)) < Len(parts) =>
                        d.params[name] = f.defaultValue
                  /\ Len(Tokens(d.body)) >= Len(parts) =>
                        d.params[name] = StrV(Rest(d.body, Len(parts)))

\* C16: a trailing parameter with a schema default may be left out of the
\* body; the handler then gets the default for it unless the field is also
\* nullable, in which case it gets null; it gets the supplied text when the
\* body has it
C16_TrailingDefaultUnlessNullable ==
    Started =>
        /\ DefaultedTrailMatches
        /\ (Hit /\ DefaultedTrail(Matched)) =>
              LET parts == Matched.originalPattern
                  name == parts[Len(parts)].w
                  f == ShapeField(Matched.args, name)
              IN  /\ Done => Handlers # {}
                  /\ Len(Tokens(d.body)) < Len(parts) =>
                        d.params[name] =
                            IF f.nullable THEN NullV ELSE f.defaultValue
                  /\ Len(Tokens(d.body)) >= Len(parts) =>
                        d.params[name] = StrV(Rest(d.body, Len(parts)))

\* "hi :name" with name defaulted answered the body "hi" with the default
C16_Witness ==
    /\ Done
    /\ Hit
    /\ Handlers # {}
    /\ DefaultedTrail(Matched)
    /\ d.body = <<"hi">>
    /\ d.params["name"] = DefaultName

\* ---- nullable fields
\* C17: when a pattern command matched, every nullable field of its schema
\* whose segment is missing from the body is null in the params the handler
\* gets, and the handler is reached
C17_NullableFilledWithNull ==
    (Hit /\ Matched.args # NoArgs) =>
        /\ Done => Handlers # {}
        /\ \A i \in 1..Len(Matched.args) :
              LET f == Matched.args[i] IN
              (/\ f.nullable
               /\ f.name \in ParamNames(Matched.originalPattern)
               /\ Len(Tokens(d.body))
                     < PartIndex(Matched.originalPattern, f.name)) =>
                  d.params[f.name] = NullV

\* "weather :name" with name nullable got the body "weather"
C17_Witness ==
    /\ Done
    /\ Hit
    /\ Handlers # {}
    /\ d.body = <<"weather">>
    /\ Matched.args # NoArgs
    /\ Matched.args[1].nullable
    /\ d.params["name"] = NullV

\* ---- named parameters
\* a string pattern that ends in a parameter and has no optional parameter
PlainParams(c) ==
    LET parts == c.originalPattern IN
    /\ c.hasPattern
    /\ parts # <<>>
    /\ parts[Len(parts)].param
    /\ \A i \in 1..Len(parts) : ~parts[i].q
    /\ \A i \in 1..Len(c.args) : Required(c.args[i])

\* the body has a token for every part of the pattern, the literal ones equal
\* to the literals, and no whitespace at its start
Supplies(parts, body) ==
    /\ body # <<>>
    /\ body[1] # SP
    /\ Len(Tokens(body)) >= Len(parts)
    /\ \A i \in 1..Len(parts) : ~parts[i].param => Tokens(body)[i] = parts[i].w

\* C18: a body that has text for every part of a string pattern matches it;
\* each parameter but the last is bound to one whitespace-free token, the
\* last one to all the text from its first token on, spaces included, and
\* params has exactly the parameter names of the pattern
C18_ParametersBound ==
    Started =>
        /\ \A i \in 1..Len(commands[d.inst]) :
              LET c == commands[d.inst][i] IN
              (PlainParams(c) /\ Supplies(c.originalPattern, d.body)) =>
                  Accepts(c, d.body, d.raw)
        /\ (Hit /\ PlainParams(Matched)) =>
              LET parts == Matched.originalPattern
                  n == Len(parts)
                  toks == Tokens(d.body)
              IN  /\ DOMAIN d.params = ParamNames(parts)
                  /\ Len(toks) >= n
                  /\ \A i \in 1..n : parts[i].param =>
                        d.params[parts[i].w] =
                            IF i < n THEN StrV(<<toks[i]>>)
                            ELSE StrV(Rest(d.body, n))

\* "sum :a :b" got "sum 1 2 3": a is "1" and b is "2 3"
C18_Witness ==
    /\ Done
    /\ Hit
    /\ Handlers # {}
    /\ d.body = <<"sum", SP, "1", SP, "2", SP, "3">>
    /\ d.params = [a |-> StrV(<<"1">>), b |-> StrV(<<"2", SP, "3">>)]

\* ---- propagation of hooks
\* the hook registered by the on() call that returned last
LastHook == nextFn - 1

OnReturned == last.op = "on" /\ ~last.threw

\* the instances that have fn in one of their hook lists
Holders(fn) ==
    {x \in Insts : \E name \in HOOK_NAMES : fn \in Range(hooks[x][name])}

\* how often fn is in the hook lists of x
Occurrences(fn, x) ==
    Cardinality({<<name, i>> \in HOOK_NAMES \X (1..MaxFns + 1) :
                    i <= Len(hooks[x][name]) /\ hooks[x][name][i] = fn})

\* the instances that took x as a plugin with use()
ParentsOf(x) == {h \in Insts : <<h, x>> \in used}

\* the instances linked to one of S by a use() call
Linked(S) ==
    S \cup {x \in Insts : \E y \in S : <<x, y>> \in used \/ <<y, x>> \in used}

\* the tree of x: its root and everything attached below it
Tree(x) == Linked(Linked({x}))

\* C19: on() on an instance of scope 'scoped' that a parent attached with
\* use() adds the hook to the instance and to that parent, and nowhere else
C19_ScopedHookReachesParent ==
    (/\ OnReturned
     /\ scope[last.inst] = "scoped"
     /\ ParentsOf(last.inst) # {}) =>
        Holders(LastHook) = {last.inst} \cup ParentsOf(last.inst)

\* C20: on() on an instance of scope 'global' adds the hook exactly once to
\* every instance that is in the tree of that instance when on() is called
C20_GlobalHookReachesTree ==
    (OnReturned /\ scope[last.inst] = "global") =>
        /\ Holders(LastHook) = Tree(last.inst)
        /\ \A x \in Tree(last.inst) : Occurrences(LastHook, x) = 1
\* ---- hooks and their return values
\* the callbacks of the hook events of one name, in the order they were called
HookFns(name) ==
    LET es == SelectSeq(Trace, LAMBDA e : e.k = "hook" /\ e.name = name)
    IN  [i \in 1..Len(es) |-> es[i].fn]

\* the dispatch has left the hook stage of that name
Past(name) ==
    CASE name = "request" -> d.pc # "request"
      [] name = "parse" -> d.pc \notin {"request", "parse"}
      [] OTHER -> d.pc \notin {"request", "parse", "transform"}

\* C21: for each of request, parse and transform, a handle() call invokes
\* every hook the dispatching router has under that name, once, in
\* registration order, whatever the earlier hooks returned, and then goes on
\* to match the commands
C21_HooksDoNotShortCircuit ==
    (Started /\ sock[d.inst]) =>
        /\ \A name \in {"request", "parse", "transform"} :
              Past(name) => HookFns(name) = hooks[d.inst][name]
        /\ (Done /\ commands[d.inst] # <<>>) =>
              \E p \in Pos : Trace[p].k \in LoopKinds
\* ---- hears(predicate, handler)
PredicateEvents == {p \in Pos : Trace[p].k = "predicate"}

PredicateThrew == \E p \in PredicateEvents : Trace[p].out = "throw"

\* C22: a hears() command is matched through its predicate on the raw
\* transport message alone: the predicate's verdict on the raw payload decides
\* each try, whatever the body is; a hears() handler only runs for a payload
\* its predicate accepts, and it does run when the command is the first one
\* accepting the message, no predicate threw and no before-handler stopped
\* the pipeline
C22_HearsMatchesRaw ==
    (Started /\ sock[d.inst]) =>
        LET M == Matching(d.inst, d.body, d.raw) IN
        /\ \A p \in PredicateEvents :
              LET c == commands[d.inst][Trace[p].cmd] IN
              /\ ~c.hasPattern
              /\ (Trace[p].out = "hit") = (d.raw \in c.predicate.accepts)
              /\ (Trace[p].out = "throw") = (d.raw \in c.predicate.throws)
        /\ \A p \in Handlers :
              LET c == commands[d.inst][Trace[p].cmd] IN
              ~c.hasPattern => d.raw \in c.predicate.accepts
        /\ (/\ Done
            /\ M # {}
            /\ ~PredicateThrew
            /\ ~BeforeStopped) =>
              (~commands[d.inst][Min(M)].hasPattern =>
                  \E p \in Handlers : Trace[p].cmd = Min(M))

\* a hears() handler ran for a payload its predicate accepts, on a body that
\* is no command text
C22_Witness ==
    /\ Done
    /\ d.body = <<"sum", SP, "1">>
    /\ d.raw = "r1"
    /\ \E p \in Handlers : ~commands[d.inst][Trace[p].cmd].hasPattern
\* ---- handle() without a socket
\* C23: a handle() call on a router without a socket returns normally at
\* once: no hook, no command match, no middleware, no handler, no reply
C23_NoSocketNoDispatch ==
    (Started /\ ~sock[d.inst]) =>
        /\ Done
        /\ d.outcome = "resolved"
        /\ Trace = <<>>
        /\ d.idx = 0

\* a router without a socket that has a request hook and a command accepting
\* the message got handle()
C23_Witness ==
    /\ Done
    /\ ~sock[d.inst]
    /\ hooks[d.inst]["request"] # <<>>
    /\ Matching(d.inst, d.body, d.raw) # {}
\* ---- interleaved dispatches
\* C24: a handle() call started while an earlier call awaits a callback that
\* never resolves runs to its end, and no step of a dispatch changes the
\* command registry
C24_StalledCallBlocksNothing ==
    /\ (InFlight /\ stalled # <<>>) ~> Done
    /\ [][d'.pc # "idle" => commands' = commands]_vars

\* the handler of the first call never returned; the second call ran its
\* before-handler, its handler and its reply, and returned
C24_Witness ==
    /\ Done
    /\ d.outcome = "resolved"
    /\ stalled # <<>>
    /\ stalled[1].pc = "handler"
    /\ Befores # {}
    /\ Handlers # {}
    /\ Replies # {}
\* ---- the command registry
IsPrefix(s, t) == Len(s) <= Len(t) /\ SubSeq(t, 1, Len(s)) = s

\* C25: no call of the registration API and no step of a dispatch removes,
\* replaces or reorders a command: every step leaves each command list as it
\* is or extends it at its end, and when group() or use() has returned the
\* list is the one from before the call followed by the commands the callback
\* registered
C25_RegistryAppendOnly ==
    /\ [][\A r \in Insts : IsPrefix(commands[r], commands'[r])]_vars
    /\ [](GroupReturned =>
            IsPrefix(last.before.commands, commands[last.inst]))

\* group() returned after its callback registered a command behind an
\* earlier one, and a message was dispatched afterwards
C25_Witness ==
    /\ Done
    /\ Handlers # {}
    /\ last.op = "group"
    /\ last.before.commands # <<>>
    /\ Len(commands[last.inst]) > Len(last.before.commands)
\* ---- executeError
ErrorEvents == {p \in Pos : Trace[p].k = "error"}

\* C26: executeError calls the error handlers bound to the command in
\* registration order, each with the error and the context, up to the first
\* one that returns a truthy value, which is its result; when none does, or
\* there is none, its result is the Internal-server-error object; the
\* dispatcher replies nothing for it and handle() returns
C26_ExecuteErrorFirstTruthy ==
    /\ \A p \in ErrorEvents :
          LET k == Cardinality({q \in ErrorEvents : q <= p}) IN
          /\ k <= Len(BoundErrors)
          /\ Trace[p].fn = BoundErrors[k]
          /\ Trace[p].arg = d.error
          /\ \A q \in ErrorEvents : q < p => Trace[q].out = "falsy"
          /\ \A q \in Pos : q > p => Trace[q].k = "error"
    /\ (Done /\ d.error # 0
         /\ \A p \in ErrorEvents : Trace[p].out # "throw") =>
          /\ d.outcome = "resolved"
          /\ IF \E p \in ErrorEvents : Trace[p].out = "truthy"
             THEN d.handled = ObjV
             ELSE /\ d.handled = InternalServerError
                  /\ Cardinality(ErrorEvents) = Len(BoundErrors)

\* two error handlers got the handler's exception, neither claimed it
C26_Witness ==
    /\ Done
    /\ d.error > 0
    /\ Cardinality(ErrorEvents) = 2
    /\ d.handled = InternalServerError
    /\ Replies = {}

\* the first of two error handlers claimed the error, the second was not called
C26_WitnessTruthy ==
    /\ Done
    /\ d.error # 0
    /\ Len(BoundErrors) = 2
    /\ Cardinality(ErrorEvents) = 1
    /\ d.handled = ObjV
\* ---- object schemas
\* the issues whose path starts at key
IssuesAt(issues, key) ==
    SelectSeq(issues, LAMBDA e : e.path # <<>> /\ e.path[1] = key)

Restrict(data, S) == [k \in DOMAIN data \cap S |-> data[k]]

\* the issues of one declared key, parsed on its own
KeyIssues(f, data) == ObjectParse(<<f>>, Restrict(data, {f.name})).issues

\* C27: parse of an object schema looks at every key on its own and reports
\* everything at once: one issue per input key the schema does not declare,
\* and for every declared key the issues its own value gives, with the key in
\* front of their path; nothing else is reported, and parse succeeds, with a
\* value for every declared key, exactly when there is no issue
C27_ObjectParseCollectsAll ==
    last.op = "parse" =>
        LET args == last.args
            data == last.data
            res == last.result
            unknown == DOMAIN data \ ShapeNames(args)
        IN  /\ \A k \in unknown :
                  IssuesAt(res.issues, k) = <<Issue("Unknown property", <<k>>)>>
            /\ \A i \in 1..Len(args) :
                  IssuesAt(res.issues, args[i].name) = KeyIssues(args[i], data)
            /\ \A j \in 1..Len(res.issues) :
                  /\ res.issues[j].path # <<>>
                  /\ res.issues[j].path[1] \in unknown \cup ShapeNames(args)
            /\ res.ok = (res.issues = <<>>)
            /\ res.ok =
                  (/\ unknown = {}
                   /\ \A i \in 1..Len(args) : KeyIssues(args[i], data) = <<>>)
            /\ res.ok => DOMAIN res.value = ShapeNames(args)

\* an input with two undeclared keys and two declared keys that both fail:
\* four issues in one result
C27_Witness ==
    /\ last.op = "parse"
    /\ ~last.result.ok
    /\ {"x", "y"} \subseteq DOMAIN last.data
    /\ Len(last.result.issues) = 4
\* ---- sibling groups
\* C28: a command registered after an earlier group() or use() has returned
\* is compiled against the prefixes of the calls that enclose it alone: the
\* prefix of the returned call is not part of its pattern, so a command at
\* top level matches its bare pattern and a command of a later sibling group
\* matches the sibling's prefix followed by the pattern
C28_GroupsDoNotLeak ==
    \A r \in Insts : \A i \in 1..Len(commands[r]) :
        LET c == commands[r][i] IN
        c.hasPattern =>
            c.pattern = CompilePattern(c.nest, c.originalPattern, c.args)
\* ---- after-middleware
\* what the handler called at position p returned
HandlerValue(p) ==
    CASE Trace[p].out = "string" -> Text(Trace[p].fn)
      [] Trace[p].out = "empty" -> StrV(<<>>)
      [] OTHER -> Undefined

NonEmptyString(x) == x.k = "string" /\ x.v # <<>>

\* C29: the after-handlers bound to the command run in order after the
\* handler, the first one with ctx.result equal to the handler's return
\* value, and a truthy return stops the remaining ones; whatever they return
\* or assign to ctx.result, the only reply after the handler carries the
\* handler's own return value, and it is sent exactly when that value is a
\* non-empty string
C29_AfterIsObservational ==
    /\ \A p \in Afters :
          LET k == Cardinality({q \in Afters : q <= p}) IN
          /\ k <= Len(Matched.middleware.afterHandle)
          /\ Trace[p].fn = Matched.middleware.afterHandle[k]
          /\ \A q \in Afters : q < p => Trace[q].out \in {"falsy", "mutate"}
          /\ \E h \in Handlers :
                /\ h < p
                /\ k = 1 => Trace[p].arg = HandlerValue(h)
    /\ \A p \in Replies : Trace[p].name = "result" =>
          \E h \in Handlers :
              /\ h < p
              /\ NonEmptyString(HandlerValue(h))
              /\ Trace[p].arg = HandlerValue(h)
    /\ (Done /\ Clean) =>
          \A h \in Handlers :
              NonEmptyString(HandlerValue(h)) =
                  (\E p \in Replies : Trace[p].name = "result")

\* the handler returned a string, an after-handler assigned ctx.result and
\* the next one returned a truthy value; the reply carried the handler's value
C29_Witness ==
    /\ Done
    /\ \E p \in Afters : Trace[p].out = "mutate"
    /\ \E p \in Afters : Trace[p].out = "truthy"
    /\ \E h \in Handlers : \E p \in Replies :
          /\ Trace[p].arg = HandlerValue(h)
          /\ d.result # HandlerValue(h)

\* the handler returned the empty string: the after-handler ran, no reply
C29_WitnessEmpty ==
    /\ Done
    /\ \E h \in Handlers : Trace[h].out = "empty"
    /\ Afters # {}
    /\ Replies = {}
\* ---- use(plugin) with a router as plugin
PatternCommands(list) == SelectSeq(list, LAMBDA c : c.hasPattern)

\* what a use() step that takes the state from (host, plug) to (host', plug')
\* does when the plugin has scope 'local'
UseEffect(host, plug) ==
    LET old == commands[host]
        new == commands'[host]
        added == SubSeq(new, Len(old) + 1, Len(new))
        src == PatternCommands(commands[plug])
    IN  /\ IsPrefix(old, new)
        /\ Len(added) = Len(src)
        /\ \A i \in 1..Len(src) :
              /\ added[i].hasPattern
              /\ added[i].originalPattern = src[i].originalPattern
              /\ added[i].handler = src[i].handler
              /\ \A type \in MiddlewareTypes :
                    added[i].middleware[type] =
                        middleware[host][type] \o src[i].middleware[type]
        /\ hooks'[host] = hooks[host]
        /\ commands'[plug] = commands[plug]
        /\ middleware'[plug] = middleware[plug]
        /\ hooks'[plug] = hooks[plug]

\* C30: use(plugin) with a router of scope 'local' appends to the host one
\* command per pattern command of the plugin, in the plugin's order, with
\* the same pattern and handler and with the host's current before, after and
\* error handlers followed by those bound to the plugin command; the
\* plugin's hears() commands are not taken over, the host's hooks stay as
\* they are, and the plugin's commands, middleware and hooks are untouched
C30_UseReregistersPatternCommands ==
    [][(last'.op = "use" /\ scope["plugin"] = "local") =>
          UseEffect(last'.inst, "plugin")]_vars

\* ---- merge and mergeAll
Contents(h, e) == [type \in TYPES |-> ArrayOf(h, e, type)]

RECURSIVE Concatenation(_, _, _, _)
Concatenation(h, engines, type, i) ==
    IF i > Len(engines) THEN <<>>
    ELSE IF engines[i] = NoEngine THEN Concatenation(h, engines, type, i + 1)
    ELSE ArrayOf(h, engines[i], type) \o Concatenation(h, engines, type, i + 1)

Related(h, e1, e2) == e1 \in h.inputs[e2] \/ e2 \in h.inputs[e1]

\* C31: merge and mergeAll return a new engine whose three lists are the
\* in-order concatenations of the inputs' lists and leave every existing
\* engine as it was; a handler added afterwards to the result does not show
\* in an input, and a handler added to an input does not show in the result
C31_MergeMakesNewEngine ==
    [][/\ last'.op \in {"merge", "mergeAll"} =>
            /\ \A type \in TYPES :
                  ArrayOf(last', last'.on, type)
                      = Concatenation(last, last'.args, type, 1)
            /\ \A e \in Engines : Contents(last', e) = Contents(last, e)
       /\ last'.op = "add" =>
            \A e \in Engines \ {last'.on} :
                Related(last, e, last'.on) =>
                    Contents(last', e) = Contents(last, e)]_vars

C31_Witness ==
    /\ last.op = "add"
    /\ Cardinality(last.inputs[last.on]) = 2
    /\ \A e \in last.inputs[last.on] :
          \E type \in TYPES : ArrayOf(last, e, type) # <<>>
    /\ \E type \in TYPES :
          Len(ArrayOf(last, last.on, type)) = 3

\* ---- a trailing optional parameter the body does not supply
TrailingOptional(parts, args) ==
    /\ parts # <<>>
    /\ parts[Len(parts)].param
    /\ \/ parts[Len(parts)].q
       \/ /\ parts[Len(parts)].w \in ShapeNames(args)
          /\ isOptionalish(ShapeField(args, parts[Len(parts)].w))

\* the prefix and the segments before the last one, a word for a parameter
ShortBody(prefix, parts) ==
    JoinSp(prefix \o [i \in 1..(Len(parts) - 1) |->
                          IF parts[i].param THEN "v" ELSE parts[i].w])

Pushed(r) == commands'[r][Len(commands'[r])]

\* C32: a command registered with a string pattern whose trailing parameter is
\* optional (by '?' or by the schema) matches the body made of the active
\* prefix and the preceding segments with nothing after them, also when the
\* optional parameter is the whole pattern and the prefix is not empty
C32_MissingOptionalNeedsNoSeparator ==
    [][\A r \in Insts :
          (last'.op = "cmd" /\ last'.inst = r /\ ~last'.threw
           /\ TrailingOptional(Pushed(r).originalPattern, Pushed(r).args))
          => exec(Pushed(r).pattern,
                  ShortBody(currentPrefix(r), Pushed(r).originalPattern))
                 .matched]_vars

\* the same for the patterns with a segment before the optional parameter
C32_AfterASegment ==
    [][\A r \in Insts :
          (last'.op = "cmd" /\ last'.inst = r /\ ~last'.threw
           /\ TrailingOptional(Pushed(r).originalPattern, Pushed(r).args)
           /\ Len(Pushed(r).originalPattern) > 1)
          => exec(Pushed(r).pattern,
                  ShortBody(currentPrefix(r), Pushed(r).originalPattern))
                 .matched]_vars

\* ---- the config of a router
OnlyPairing(config) ==
    /\ \A key \in CONFIG_KEYS \ {"pairing"} : config[key] = Absent
    /\ config.pairing.k = "object"
    /\ "number" \in config.pairing.has
    /\ isDigit(config.pairing.number)

\* C33: new Yabai({ pairing: { number } }) with a digits-only number and no
\* other key does not raise ConfigError
C33_PairingOnlyConfigAccepted ==
    (last.op = "new" /\ OnlyPairing(last.config)) => ~last.threw

\* ---- registration calls that raise
\* C34: a cmd(), on() or as() call that raises leaves the command list, the
\* prefix stack, the middleware, the hooks and the scope as they were
C34_RejectedCallChangesNothing ==
    [][(last'.threw /\ last'.op \in {"cmd", "on", "as"})
       => UNCHANGED <<commands, prefixStack, middleware, hooks, scope>>]_vars

C34_Witness ==
    /\ last.threw
    /\ last.op = "as"
    /\ scope["bot"] = "scoped"
    /\ commands["bot"] # <<>>
    /\ middleware["bot"].beforeHandle # <<>>
    /\ frames # <<>>

C34_WitnessCmd == last.threw /\ last.op = "cmd" /\ commands["bot"] # <<>>

C34_WitnessOn == last.threw /\ last.op = "on" /\ hooks["bot"].request # <<>>

\* ---- hooks registered inside a group
HookEvents == {p \in 1..Len(d.trace) : d.trace[p].k = "hook"}

\* C35: a hook registered with on() on a local router from inside a group()
\* or use() callback is dropped when the callback returns: no handle() call
\* made after the group returned invokes it, whichever command the message
\* matches
C35_GroupHooksAreDropped ==
    \A p \in HookEvents : ~owner[d.trace[p].fn].inGroup

C35_Witness ==
    /\ d.pc = "done"
    /\ \E f \in 1..Len(owner) : owner[f].inGroup
    /\ HookEvents # {}
    /\ \E p \in 1..Len(d.trace) :
          /\ d.trace[p].k = "handler"
          /\ commands[d.inst][d.trace[p].cmd].nest = <<"admin">>

\* ---- use(plugin) and the args schemas of the plugin's commands
\* the dispatch matched a command that use() registered
UseHit ==
    /\ d.pc # "idle"
    /\ d.idx \in 1..Len(commands[d.inst])
    /\ Matched.via = "use"
    /\ \E p \in 1..Len(d.trace) :
          d.trace[p].k = "match" /\ d.trace[p].cmd = d.idx
          /\ d.trace[p].out = "hit"

\* C36: a command that use() registers on the host has no args schema: its
\* parameters without '?' are compiled as required segments whatever the
\* plugin's schema says, and a dispatch on the host that matches it runs no
\* schema validation and hands the raw captures to the handler
C36_UseDropsArgsSchema ==
    /\ \A r \in Insts : \A i \in 1..Len(commands[r]) :
          commands[r][i].via = "use" =>
              /\ commands[r][i].args = NoArgs
              /\ \A j \in 1..Len(commands[r][i].pattern) :
                    commands[r][i].pattern[j].t = "opt" =>
                        \E k \in 1..Len(commands[r][i].originalPattern) :
                            /\ commands[r][i].originalPattern[k].q
                            /\ commands[r][i].originalPattern[k].w
                                   = commands[r][i].pattern[j].n
    /\ UseHit =>
          /\ d.params = exec(Matched.pattern, d.body).groups
          /\ \A p \in 1..Len(d.trace) : d.trace[p].k # "args"

\* the plugin's command of the same handler has a schema with a number field,
\* and the host's handler was called with the text of the capture
C36_Witness ==
    /\ UseHit
    /\ d.pc = "done"
    /\ \E p \in 1..Len(d.trace) : d.trace[p].k = "handler"
    /\ d.params = [a |-> StrV(<<"1">>), b |-> StrV(<<"k">>)]
    /\ \E i \in 1..Len(commands["plugin"]) :
          /\ commands["plugin"][i].handler = Matched.handler
          /\ commands["plugin"][i].args = SumNumbers.args

\* 'hi' reaches the handler on the plugin, with the default, not on the host
C36_WitnessRequired ==
    /\ d.pc = "done"
    /\ d.inst = "bot"
    /\ d.body = <<"hi">>
    /\ \E i \in 1..Len(commands["bot"]) :
          /\ commands["bot"][i].via = "use"
          /\ commands["bot"][i].originalPattern = Hi.parts
    /\ \A p \in 1..Len(d.trace) : d.trace[p].k # "handler"

\* ---- use(plugin) with a router that is not local
\* C37: use(plugin) with a router whose scope is 'scoped' or 'global'
\* registers nothing: the host's commands, middleware and hooks are after
\* the call what they were before it
C37_UseOfNonLocalRegistersNothing ==
    [][\A host \in Insts :
          (last'.op = "use" /\ last'.inst = host
           /\ scope["plugin"] \in {"scoped", "global"})
          => /\ commands'[host] = commands[host]
             /\ middleware'[host] = middleware[host]
             /\ hooks'[host] = hooks[host]]_vars

C37_Witness ==
    /\ last.op = "use"
    /\ scope["plugin"] \in {"scoped", "global"}
    /\ PatternCommands(commands["plugin"]) # <<>>
    /\ hooks["plugin"].request # <<>>
    /\ middleware["bot"].beforeHandle # <<>>
    /\ \A i \in 1..Len(commands["bot"]) : commands["bot"][i].via # "use"

\* ---- the context of interleaved calls
\* the calls of handle() that have started
HandleCalls == {d} \cup {stalled[i] : i \in 1..Len(stalled)}

\* ctx.result as the call's own callbacks left it, from its own events
RECURSIVE OwnResult(_, _)
OwnResult(trace, p) ==
    IF p = 0 THEN Undefined
    ELSE LET e == trace[p] IN
         CASE e.k \in {"before", "handler"} /\ e.out = "string" -> Text(e.fn)
           [] e.k = "before" /\ e.out = "object" -> ObjV
           [] e.k = "handler" -> Undefined
           [] e.k = "after" /\ e.out = "mutate" -> Text(e.fn)
           [] OTHER -> OwnResult(trace, p - 1)

\* ctx.params of a call that matched the command at idx, from its own body
OwnParams(rec) ==
    IF /\ rec.idx \in 1..Len(commands[rec.inst])
       /\ \E p \in 1..Len(rec.trace) :
             rec.trace[p].k = "match" /\ rec.trace[p].out = "hit"
    THEN exec(commands[rec.inst][rec.idx].pattern, rec.body).groups
    ELSE <<>>

OwnMessage(rec) ==
    rec.pc # "idle" => \E m \in EchoMessages : m.body = rec.body /\ m.raw = rec.raw

\* C38: under any interleaving of handle() calls at their awaits, the params,
\* result and msg of each call's context are those of its own message and its
\* own callbacks, never those of another call
C38_ContextIsPerCall ==
    \A rec \in HandleCalls :
        /\ rec.params = OwnParams(rec)
        /\ rec.result = OwnResult(rec.trace, Len(rec.trace))
        /\ OwnMessage(rec)

\* two calls with different messages have both returned, so one of them
\* continued after the other had run; each ran its handler and its
\* after-handler, and their params and results differ
C38_Witness ==
    /\ stalled # <<>>
    /\ d.body # stalled[1].body
    /\ d.pc = "done" /\ stalled[1].pc = "done"
    /\ d.params # stalled[1].params
    /\ d.result # stalled[1].result
    /\ \A rec \in {d, stalled[1]} :
          /\ \E p \in 1..Len(rec.trace) : rec.trace[p].k = "handler"
          /\ \E p \in 1..Len(rec.trace) : rec.trace[p].k = "after"

\* ---- hooks that throw
HookThrows == {p \in Pos : Trace[p].k = "hook" /\ Trace[p].out = "throw"}

\* the place in its hook list of the hook called at position p
HookIndex(p) ==
    Cardinality({q \in Pos : /\ q <= p
                             /\ Trace[q].k = "hook"
                             /\ Trace[q].name = Trace[p].name})

\* after the throw at p the hook list goes on: the next hook of the same name
\* is the next callback, and after the last one the next stage follows
GoesOn(p) ==
    LET name == Trace[p].name
        list == hooks[d.inst][name]
        k == HookIndex(p)
    IN  IF k < Len(list)
        THEN IF p < Len(Trace)
             THEN /\ Trace[p + 1].k = "hook"
                  /\ Trace[p + 1].name = name
                  /\ Trace[p + 1].fn = list[k + 1]
             ELSE d.pc = name /\ d.i = k + 1
        ELSE /\ d.pc # name
             /\ p < Len(Trace) =>
                   ~(Trace[p + 1].k = "hook" /\ Trace[p + 1].name = name)

\* C39: an exception of a request, parse, transform or afterResponse hook is
\* caught inside executeHooks: no error handler gets it and handle() does not
\* reject with it, the next hook of the same name is called as if the hook
\* had returned, and the dispatch goes on to the next stage: the commands
\* are tried and the first one that accepts the message is run
C39_HookThrowIsContained ==
    \A p \in HookThrows :
        /\ d.error # Trace[p].fn
        /\ d.thrown # Trace[p].fn
        /\ \A q \in Pos : Trace[q].k = "error" => Trace[q].arg # Trace[p].fn
        /\ GoesOn(p)
        /\ (Done /\ d.outcome = "resolved"
            /\ Matching(d.inst, d.body, d.raw) # {}) =>
              \E q \in Pos :
                  /\ Trace[q].k \in LoopKinds
                  /\ Trace[q].out = "hit"
                  /\ Trace[q].cmd = Min(Matching(d.inst, d.body, d.raw))

\* the first of two request hooks threw, the second was called, and the
\* handler of the matching command ran; no error handler was called
C39_Witness ==
    /\ Done
    /\ \E p \in HookThrows :
          /\ Trace[p].name = "request"
          /\ HookIndex(p) = 1
          /\ Len(hooks[d.inst]["request"]) = 2
    /\ Handlers # {}
    /\ \A q \in Pos : Trace[q].k # "error"

C39_WitnessAfterResponse ==
    /\ Done
    /\ \E p \in HookThrows : Trace[p].name = "afterResponse"
    /\ Handlers # {}

====
